---------------------------- MODULE Spec2Model ----------------------------
(***************************************************************************)
(* Model of the layered recency cache (adapter/cache/redis_cache.py), the  *)
(* rehydrator (adapter/cache/rehydrate_caches.py), the context assembler   *)
(* (adapter/context_builder.py) and the reputation and treatment engine    *)
(* (service/moderation_service.py) of the group-chat assistant.            *)
(*                                                                         *)
(* The cache store is one map from keys to values with a time-to-live per  *)
(* key; a key is the tuple of the ':'-separated tokens of the Redis key.   *)
(* The durable store is one variable per table.  Time is a clock in        *)
(* seconds.  Every settings value below is read from the environment by    *)
(* core/settings.py; the window lengths run here in a configuration that   *)
(* is scaled down and keeps the order of the defaults                      *)
(* (USER_ENRICH_LIMIT < USER_CACHE_LIMIT < GROUP_MSG_LIMIT < replay limit, *)
(* MIN_CONTEXT_MSGS <= USER_CACHE_LIMIT).                                  *)
(***************************************************************************)
EXTENDS Integers, Sequences, FiniteSets, TLC

VARIABLES redis,           \* cache store: [data: key -> value, ttl: key -> expiry time]
          now,             \* wall clock, seconds
          db_groups,       \* durable Group rows: chat_id -> row
          db_botconfig,    \* durable BotConfig rows: Group.id -> row
          db_messages,     \* durable Message rows, in insertion order
          db_users,        \* durable User rows: user_id -> reputation_score
          db_spamresults,  \* durable SpamResult rows, in insertion order
          bot_calls,       \* platform calls made so far (send_message, delete_message)
          pending,         \* background tasks of the message handler, not yet finished
          rehydrate_calls, \* history: the invocations of rehydrate_group_caches
          settings,        \* the moderation constants of core.settings, read at import
          hist,            \* history: key -> the appends made since the key was created
          last             \* history: the last operation, its inputs and its result

vars == <<redis, now, db_groups, db_botconfig, db_messages, db_users,
          db_spamresults, bot_calls, pending, rehydrate_calls, settings, hist, last>>

----------------------------------------------------------------------------
(* Bounds of the model.                                                    *)

MaxUser == 2
MaxGroup == 2
MaxId == 3
MaxAppends == 3
MaxWinUser == 1
MaxWinGroup == 1
MaxLimit == 2
MaxCalls == 2
MaxModUser == 1
MaxMessages == 2
MaxRehydrates == 2
MaxTasks == 2
MaxPending == 1
MaxReplayRows == 4
MaxFaultyRuns == 1
MaxHandlers == 2
MaxBucketCalls == 5
MaxMalformed == 1
TickSecs == 150
MaxTime == 600

Users == 1..MaxUser
Groups == 1..MaxGroup
Ids == 1..MaxId
WinUsers == 1..MaxWinUser
WinGroups == 1..MaxWinGroup
ModUsers == 1..MaxModUser

(* Settings (core/settings.py).                                            *)

USER_CACHE_TTL == 600
USER_GLOBAL_TTL == 900
GROUP_STATE_TTL == 300
GROUP_MSG_TTL == 600
GROUP_CONFIG_TTL == 600
USER_CACHE_LIMIT == 2
GROUP_MSG_LIMIT == 3
USER_ENRICH_LIMIT == 1
TASK_TTL == 900
STALE_WINDOW_SECS == 300
MIN_CONTEXT_MSGS == 2
EMPTY_DB_COOLDOWN_SECS == 300
\* the limit build_context passes to rehydrate_group_caches
CONTEXT_REPLAY_LIMIT == 4

----------------------------------------------------------------------------
(* Small helpers.                                                          *)

\* Python's None and a present value
None == << >>
Some(x) == <<x>>
Val(o) == o[1]

Max(a, b) == IF a >= b THEN a ELSE b
Min(a, b) == IF a <= b THEN a ELSE b

Reverse(s) == [i \in 1..Len(s) |-> s[Len(s) + 1 - i]]

----------------------------------------------------------------------------
(* The cache store: Redis commands used by the code.                       *)

EmptyStore == [data |-> << >>, ttl |-> << >>]

Exists(st, key) == key \in DOMAIN st.data

Restrict(f, S) == [k \in S |-> f[k]]

Put(f, k, v) == [x \in DOMAIN f \cup {k} |-> IF x = k THEN v ELSE f[x]]

\* DEL key
redis_delete(st, key) ==
    [data |-> Restrict(st.data, DOMAIN st.data \ {key}),
     ttl |-> Restrict(st.ttl, DOMAIN st.ttl \ {key})]

\* RPUSH key value: creates the list when the key is absent, keeps its TTL
redis_rpush(st, key, value) ==
    [st EXCEPT !.data = Put(st.data, key,
        IF Exists(st, key) THEN Append(st.data[key], value) ELSE <<value>>)]

\* Redis list index normalisation: negative indices count from the tail
NormStart(len, start) == IF start < 0 THEN Max(len + start, 0) ELSE start
NormStop(len, stop) == IF stop < 0 THEN len + stop ELSE Min(stop, len - 1)

ListRange(list, start, stop) ==
    SubSeq(list, NormStart(Len(list), start) + 1, NormStop(Len(list), stop) + 1)

\* LTRIM key start stop: an emptied list is removed
redis_ltrim(st, key, start, stop) ==
    IF ~Exists(st, key) THEN st
    ELSE LET kept == ListRange(st.data[key], start, stop)
         IN  IF kept = << >> THEN redis_delete(st, key)
             ELSE [st EXCEPT !.data = Put(st.data, key, kept)]

\* LRANGE key start stop
redis_lrange(st, key, start, stop) ==
    IF Exists(st, key) THEN ListRange(st.data[key], start, stop) ELSE << >>

\* EXPIRE key seconds, issued at time t
redis_expire(st, t, key, seconds) ==
    IF Exists(st, key) THEN [st EXCEPT !.ttl = Put(st.ttl, key, t + seconds)] ELSE st

\* SET key value [EX seconds], issued at time t; seconds = 0 stands for no EX,
\* which drops any TTL the key had
redis_set(st, t, key, value, seconds) ==
    [data |-> Put(st.data, key, value),
     ttl |-> IF seconds > 0 THEN Put(st.ttl, key, t + seconds)
             ELSE Restrict(st.ttl, DOMAIN st.ttl \ {key})]

\* keys whose TTL has elapsed at time t
Expired(st, t) == {k \in DOMAIN st.ttl : st.ttl[k] <= t}

redis_purge(st, t) ==
    [data |-> Restrict(st.data, DOMAIN st.data \ Expired(st, t)),
     ttl |-> Restrict(st.ttl, DOMAIN st.ttl \ Expired(st, t))]

----------------------------------------------------------------------------
(* json.dumps / json.loads of the cached items.  A stored entry is a       *)
(* string; the model keeps the text of a well-formed entry as the value it *)
(* encodes, wrapped in a record, so that an entry is never the item itself.*)

json_dumps(m) == [json |-> m]
json_loads(s) == s.json

----------------------------------------------------------------------------
(* Layered recency cache (adapter/cache/redis_cache.py).                   *)

_key_user_group(user_id, group_id) == <<"user", user_id, "group", group_id>>
_key_user_global(user_id) == <<"user", user_id, "global">>
_key_group_state(group_id) == <<"group", group_id, "state">>
_key_group_config(group_id) == <<"group", group_id, "config">>
_key_group_msgs(group_id) == <<"group", group_id, "recent_msgs">>
_key_user_group_enriched(user_id, group_id) ==
    <<"user", user_id, "group", group_id, "enriched_recent">>

\* mutation of AppendBounded: the trim keeps the head of the list
AppendKeepOldest(st, t, key, item, ttl, limit) ==
    LET pushed == redis_rpush(st, key, json_dumps(item))
        trimmed == redis_ltrim(pushed, key, 0, limit - 1)
    IN  IF ttl > 0 THEN redis_expire(trimmed, t, key, ttl) ELSE trimmed

\* the body shared by the four append_* functions: rpush, ltrim, expire
AppendBounded(st, t, key, item, ttl, limit) ==
    LET pushed == redis_rpush(st, key, json_dumps(item))
        trimmed == redis_ltrim(pushed, key, -limit, -1)
    IN  IF ttl > 0 THEN redis_expire(trimmed, t, key, ttl) ELSE trimmed

\* (m or {}).get("id"): None when the item carries no id
HasId(m) == "id" \in DOMAIN m

\* the loop shared by the four get_recent_* functions: walk the parsed items
\* newest first, skip an item without id or with an id already seen
RECURSIVE DedupRev(_, _)
DedupRev(rev, seen) ==
    IF rev = << >> THEN << >>
    ELSE LET m == Head(rev)
         IN  IF ~HasId(m) \/ m.id \in seen THEN DedupRev(Tail(rev), seen)
             ELSE <<m>> \o DedupRev(Tail(rev), seen \cup {m.id})

\* mutation of ReadWindow: the parsed items are returned as read
ReadWindowNoDedup(st, key, limit) ==
    LET items == redis_lrange(st, key, -limit, -1)
    IN  [i \in 1..Len(items) |-> json_loads(items[i])]

\* the body shared by the four get_recent_* functions
ReadWindow(st, key, limit) ==
    LET items == redis_lrange(st, key, -limit, -1)
        parsed == [i \in 1..Len(items) |-> json_loads(items[i])]
    IN  Reverse(DedupRev(Reverse(parsed), {}))

\* whether json.loads accepts a stored entry: an entry json.dumps wrote
json_valid(s) == "json" \in DOMAIN s

\* a get_recent_* call as its caller sees it: the list comprehension
\* [json.loads(i) for i in items] is not guarded, so one entry json.loads
\* rejects makes the call raise
ReadWindowOrRaise(st, key, limit) ==
    LET items == redis_lrange(st, key, -limit, -1)
    IN  IF \E i \in 1..Len(items) : ~json_valid(items[i])
        THEN [raised |-> TRUE, items |-> << >>]
        ELSE [raised |-> FALSE, items |-> ReadWindow(st, key, limit)]

append_user_group_message(st, t, user_id, group_id, message, ttl, limit) ==
    AppendBounded(st, t, _key_user_group(user_id, group_id), message, ttl, limit)

get_recent_user_group_messages(st, user_id, group_id, limit) ==
    ReadWindow(st, _key_user_group(user_id, group_id), limit)

append_user_global_meta(st, t, user_id, meta, ttl, limit) ==
    AppendBounded(st, t, _key_user_global(user_id), meta, ttl, limit)

get_recent_user_global_meta(st, user_id, limit) ==
    ReadWindow(st, _key_user_global(user_id), limit)

append_group_message(st, t, group_id, message, ttl, limit) ==
    AppendBounded(st, t, _key_group_msgs(group_id), message, ttl, limit)

get_recent_group_messages(st, group_id, limit) ==
    ReadWindow(st, _key_group_msgs(group_id), limit)

append_user_group_enriched(st, t, user_id, group_id, message_id, summary, created_at, ttl, limit) ==
    AppendBounded(st, t, _key_user_group_enriched(user_id, group_id),
                  [id |-> message_id, summary |-> summary, created_at |-> created_at],
                  ttl, limit)

get_recent_user_group_enriched(st, user_id, group_id, limit) ==
    ReadWindow(st, _key_user_group_enriched(user_id, group_id), limit)

----------------------------------------------------------------------------
(* Reputation and treatment engine (service/moderation_service.py).        *)
(* A confidence is a number of hundredths (70 is 0.7).  The durable        *)
(* reputation_score is a Float column that the code only ever writes as    *)
(* float(int) and 100.0, so it is kept as its integer value.               *)

DEFAULT_START_SCORE == 100
WARNING_THRESHOLD == 80
STRONG_WARNING_THRESHOLD == 60
PROBATION_THRESHOLD == 40
BAN_THRESHOLD == 20
MAX_SCORE == 100

\* r.set stores the decimal text of the score, int(score) parses it back
str_of_int(n) == [text |-> n]
int_of_str(s) == s.text

_key_reputation(user_id, group_id) == <<"user", user_id, "group", group_id, "reputation">>

\* int(os.getenv(name, default)): the variable of the environment when it is
\* set, the default otherwise
getenv_int(environ, name, default) ==
    IF name \in DOMAIN environ THEN int_of_str(environ[name]) ELSE default

\* the moderation constants as core/settings.py computes them at import: each
\* is read on its own and none is compared with another
load_settings(environ) ==
    [DEFAULT_START_SCORE |-> getenv_int(environ, "DEFAULT_START_SCORE", DEFAULT_START_SCORE),
     WARNING_THRESHOLD |-> getenv_int(environ, "WARNING_THRESHOLD", WARNING_THRESHOLD),
     STRONG_WARNING_THRESHOLD |->
         getenv_int(environ, "STRONG_WARNING_THRESHOLD", STRONG_WARNING_THRESHOLD),
     PROBATION_THRESHOLD |-> getenv_int(environ, "PROBATION_THRESHOLD", PROBATION_THRESHOLD),
     BAN_THRESHOLD |-> getenv_int(environ, "BAN_THRESHOLD", BAN_THRESHOLD),
     MAX_SCORE |-> getenv_int(environ, "MAX_SCORE", MAX_SCORE)]

\* the constants of a process started with none of the variables set
DefaultSettings == load_settings(<< >>)

\* the score get_reputation reads from the durable store on a cache miss:
\* int(getattr(user_row, "reputation_score", DEFAULT_START_SCORE) or DEFAULT_START_SCORE)
DurableScore(users, user_id, db_ok) ==
    IF ~db_ok THEN DEFAULT_START_SCORE
    ELSE IF user_id \notin DOMAIN users THEN DEFAULT_START_SCORE
    ELSE IF users[user_id] = 0 THEN DEFAULT_START_SCORE
    ELSE users[user_id]

\* mutation of get_reputation: a cached 0 is replaced by the default, as the
\* durable 0 is
get_reputation_cached_zero_default(st, t, users, user_id, group_id, db_ok) ==
    LET key == _key_reputation(user_id, group_id)
    IN  IF ~Exists(st, key)
        THEN LET score == DurableScore(users, user_id, db_ok)
             IN  [score |-> score, store |-> redis_set(st, t, key, str_of_int(score), 0)]
        ELSE [score |-> IF int_of_str(st.data[key]) = 0 THEN DEFAULT_START_SCORE
                        ELSE int_of_str(st.data[key]),
              store |-> st]

\* get_reputation: [score, store after the call]
get_reputation(st, t, users, user_id, group_id, db_ok) ==
    LET key == _key_reputation(user_id, group_id)
    IN  IF ~Exists(st, key)
        THEN LET score == DurableScore(users, user_id, db_ok)
             IN  [score |-> score, store |-> redis_set(st, t, key, str_of_int(score), 0)]
        ELSE [score |-> int_of_str(st.data[key]), store |-> st]

\* mutation of set_reputation: a failed mirror write rolls the cache back
set_reputation_rollback(st, t, users, user_id, group_id, score, db_ok) ==
    [store |-> IF db_ok
               THEN redis_set(st, t, _key_reputation(user_id, group_id), str_of_int(score), 0)
               ELSE st,
     users |-> IF db_ok /\ user_id \in DOMAIN users
               THEN [users EXCEPT ![user_id] = score] ELSE users]

\* the first half of set_reputation: await r.set(key, score)
set_reputation_cache(st, t, user_id, group_id, score) ==
    redis_set(st, t, _key_reputation(user_id, group_id), str_of_int(score), 0)

\* the second half of set_reputation: the user row is read in a session of
\* its own and, when there is one, written and committed; a failure is logged
set_reputation_mirror(users, user_id, score, db_ok) ==
    IF db_ok /\ user_id \in DOMAIN users THEN [users EXCEPT ![user_id] = score] ELSE users

\* set_reputation: [store, users after the call]
set_reputation(st, t, users, user_id, group_id, score, db_ok) ==
    [store |-> set_reputation_cache(st, t, user_id, group_id, score),
     users |-> set_reputation_mirror(users, user_id, score, db_ok)]

\* the category lookup table of compute_penalty
BasePoints(category) ==
    IF category \in {Some("promo"), Some("off-topic")} THEN 5
    ELSE IF category = Some("link-flood") THEN 10
    ELSE IF category \in {Some("harmful"), Some("scam"), Some("nsfw")} THEN 30
    ELSE 5

CeilDiv(a, b) == (a + b - 1) \div b

\* mutation of compute_penalty: the scaled points are rounded down
compute_penalty_round_down(verdict) ==
    LET cats == verdict.categories
        category == IF cats # << >> THEN Some(cats[1]) ELSE None
        base == BasePoints(category)
        scaled == (base * Max(verdict.confidence, 50)) \div 100
    IN  IF scaled = 0 THEN 3 ELSE scaled

\* compute_penalty: ceil(base * max(confidence, 0.5)) or 3
compute_penalty(verdict) ==
    LET cats == verdict.categories
        category == IF cats # << >> THEN Some(cats[1]) ELSE None
        base == BasePoints(category)
        scaled == CeilDiv(base * Max(verdict.confidence, 50), 100)
    IN  IF scaled = 0 THEN 3 ELSE scaled

\* mutation of NewScore: the penalty is subtracted without the floor
NewScoreUnclamped(score, penalty) == score - penalty

\* new_score = max(score - penalty, 0)
NewScore(score, penalty) == Max(score - penalty, 0)

\* mutation of SelectAction: the ladder compares with < instead of <=
SelectActionStrict(new_score) ==
    IF new_score < BAN_THRESHOLD THEN "ban"
    ELSE IF new_score < PROBATION_THRESHOLD THEN "probation"
    ELSE IF new_score < STRONG_WARNING_THRESHOLD THEN "warning_strong"
    ELSE IF new_score < WARNING_THRESHOLD THEN "warning_mild"
    ELSE "none"

\* the if/elif ladder of treat_spam
SelectAction(new_score) ==
    IF new_score <= BAN_THRESHOLD THEN "ban"
    ELSE IF new_score <= PROBATION_THRESHOLD THEN "probation"
    ELSE IF new_score <= STRONG_WARNING_THRESHOLD THEN "warning_strong"
    ELSE IF new_score <= WARNING_THRESHOLD THEN "warning_mild"
    ELSE "none"

\* the if/elif ladder of treat_spam over the constants a process loaded
SelectActionUnder(s, new_score) ==
    IF new_score <= s.BAN_THRESHOLD THEN "ban"
    ELSE IF new_score <= s.PROBATION_THRESHOLD THEN "probation"
    ELSE IF new_score <= s.STRONG_WARNING_THRESHOLD THEN "warning_strong"
    ELSE IF new_score <= s.WARNING_THRESHOLD THEN "warning_mild"
    ELSE "none"

\* the handler treat_spam awaits in each branch of the ladder
HandlerOf(action) ==
    IF action = "ban" THEN Some("handle_ban")
    ELSE IF action = "probation" THEN Some("handle_probation")
    ELSE IF action = "warning_strong" THEN Some("send_warning:strong")
    ELSE IF action = "warning_mild" THEN Some("send_warning:mild")
    ELSE None

\* handle_ban, handle_probation, send_warning: one bot.send_message, whose
\* failure is caught and logged
NotifyCalls(action, user_id, group_id, score, notify_ok) ==
    IF HandlerOf(action) = None THEN << >>
    ELSE <<[op |-> "send_message", handler |-> Val(HandlerOf(action)), chat_id |-> group_id,
            user_id |-> user_id, score |-> score, ok |-> notify_ok]>>

\* dict.get(key, default)
DictGet(dict, key, default) == IF key \in DOMAIN dict THEN dict[key] ELSE default

\* the guard of delete_message_if_needed
DeleteGuard(ctx, verdict) ==
    LET features == IF ctx.group_config # None
                    THEN Val(ctx.group_config).moderation_features ELSE << >>
        threshold == IF ctx.group_config # None
                     THEN DictGet(Val(ctx.group_config), "spam_confidence_threshold", 70)
                     ELSE 70
    IN  /\ DictGet(features, "spam_detection", TRUE)
        /\ verdict.spam
        /\ verdict.confidence >= threshold

\* mutation of delete_message_if_needed: the flag is set before the call returns
delete_message_flag_set_early(ctx, verdict, delete_ok) ==
    IF DeleteGuard(ctx, verdict) /\ ctx.new_message.telegram_message_id # None
    THEN [deleted |-> TRUE,
          calls |-> <<[op |-> "delete_message", chat_id |-> ctx.group_id,
                       message_id |-> Val(ctx.new_message.telegram_message_id),
                       ok |-> delete_ok]>>]
    ELSE [deleted |-> FALSE, calls |-> << >>]

\* delete_message_if_needed: [deleted, calls made]
delete_message_if_needed(ctx, verdict, delete_ok) ==
    IF DeleteGuard(ctx, verdict) /\ ctx.new_message.telegram_message_id # None
    THEN [deleted |-> delete_ok,
          calls |-> <<[op |-> "delete_message", chat_id |-> ctx.group_id,
                       message_id |-> Val(ctx.new_message.telegram_message_id),
                       ok |-> delete_ok]>>]
    ELSE [deleted |-> FALSE, calls |-> << >>]

\* (categories or [""])[0]
FirstCategory(verdict) == IF verdict.categories # << >> THEN verdict.categories[1] ELSE ""

\* the SpamResult row of the not-spam branch; the columns it leaves out take
\* the column defaults (deleted False, points_docked 0, final_reputation NULL)
NeutralRow(verdict, ctx) ==
    [message_id |-> ctx.new_message.id, spam |-> FALSE, confidence |-> verdict.confidence,
     category |-> FirstCategory(verdict), reason |-> verdict.reason,
     treatment_action |-> "none", treatment_message |-> None,
     deleted |-> FALSE, points_docked |-> 0, final_reputation |-> None]

\* mutation of OutcomeRow: points_docked is left at its column default
OutcomeRowNoPoints(verdict, ctx, action, deleted, penalty, new_score) ==
    [message_id |-> ctx.new_message.id, spam |-> verdict.spam, confidence |-> verdict.confidence,
     category |-> FirstCategory(verdict), reason |-> verdict.reason,
     treatment_action |-> action,
     treatment_message |-> IF action = "none" THEN None
                           ELSE Some([kind |-> action, score |-> new_score]),
     deleted |-> deleted, points_docked |-> 0, final_reputation |-> Some(new_score)]

\* the SpamResult row of the spam branch
OutcomeRow(verdict, ctx, action, deleted, penalty, new_score) ==
    [message_id |-> ctx.new_message.id, spam |-> verdict.spam, confidence |-> verdict.confidence,
     category |-> FirstCategory(verdict), reason |-> verdict.reason,
     treatment_action |-> action,
     treatment_message |-> IF action = "none" THEN None
                           ELSE Some([kind |-> action, score |-> new_score]),
     deleted |-> deleted, points_docked |-> penalty, final_reputation |-> Some(new_score)]

\* the user id treat_spam works on: the new message's, else the last recent
\* user message's, else the last global record's; 0 when none is given
ResolveUserId(ctx) ==
    IF DictGet(ctx.new_message, "user_id", 0) # 0 THEN ctx.new_message.user_id
    ELSE IF ctx.recent_user_messages # << >>
            /\ DictGet(ctx.recent_user_messages[Len(ctx.recent_user_messages)], "user_id", 0) # 0
         THEN ctx.recent_user_messages[Len(ctx.recent_user_messages)].user_id
    ELSE IF ctx.user_global_meta # << >>
         THEN DictGet(ctx.user_global_meta[Len(ctx.user_global_meta)], "user_id", 0)
    ELSE 0

\* mutation of treat_spam: the not-spam branch is missing
treat_spam_no_early_return(st, t, users, results, verdict, ctx, env) ==
    LET user_id == ResolveUserId(ctx)
        group_id == ctx.group_id
        rep == get_reputation(st, t, users, user_id, group_id, env.db_read_ok)
        penalty == compute_penalty(verdict)
        new_score == NewScore(rep.score, penalty)
        set == set_reputation(rep.store, t, users, user_id, group_id, new_score, env.db_mirror_ok)
        action == SelectAction(new_score)
        del == delete_message_if_needed(ctx, verdict, env.delete_ok)
    IN  [store |-> set.store, users |-> set.users,
         results |-> Append(results, OutcomeRow(verdict, ctx, action, del.deleted, penalty, new_score)),
         calls |-> NotifyCalls(action, user_id, group_id, new_score, env.notify_ok) \o del.calls,
         score |-> rep.score, treated |-> TRUE]

\* treat_spam: the state after the call and what the call did.  env says what
\* the collaborators do during the call: notify_ok and delete_ok whether the
\* platform accepts the send and the delete, db_read_ok and db_mirror_ok
\* whether the durable store answers the reputation read and the mirror write.
treat_spam(st, t, users, results, verdict, ctx, env) ==
    LET user_id == ResolveUserId(ctx)
        group_id == ctx.group_id
    IN  IF user_id = 0 \/ group_id = 0
        THEN [store |-> st, users |-> users, results |-> results, calls |-> << >>,
              score |-> 0, treated |-> FALSE]
        ELSE
        LET rep == get_reputation(st, t, users, user_id, group_id, env.db_read_ok)
        IN  IF ~verdict.spam
            THEN [store |-> rep.store, users |-> users,
                  results |-> Append(results, NeutralRow(verdict, ctx)),
                  calls |-> << >>, score |-> rep.score, treated |-> TRUE]
            ELSE
            LET penalty == compute_penalty(verdict)
                new_score == NewScore(rep.score, penalty)
                set == set_reputation(rep.store, t, users, user_id, group_id, new_score, env.db_mirror_ok)
                action == SelectAction(new_score)
                del == delete_message_if_needed(ctx, verdict, env.delete_ok)
            IN  [store |-> set.store, users |-> set.users,
                 results |-> Append(results,
                                OutcomeRow(verdict, ctx, action, del.deleted, penalty, new_score)),
                 calls |-> NotifyCalls(action, user_id, group_id, new_score, env.notify_ok) \o del.calls,
                 score |-> rep.score, treated |-> TRUE]

\* treat_spam in a process whose constants are s (the user and the group are
\* those of the new message of the bundle)
treat_spam_under(s, st, t, users, results, verdict, ctx, env) ==
    LET user_id == ResolveUserId(ctx)
        group_id == ctx.group_id
        rep == get_reputation(st, t, users, user_id, group_id, env.db_read_ok)
    IN  IF ~verdict.spam
        THEN [store |-> rep.store, users |-> users,
              results |-> Append(results, NeutralRow(verdict, ctx)),
              calls |-> << >>, score |-> rep.score, treated |-> TRUE]
        ELSE
        LET penalty == compute_penalty(verdict)
            new_score == NewScore(rep.score, penalty)
            set == set_reputation(rep.store, t, users, user_id, group_id, new_score,
                                  env.db_mirror_ok)
            action == SelectActionUnder(s, new_score)
            del == delete_message_if_needed(ctx, verdict, env.delete_ok)
        IN  [store |-> set.store, users |-> set.users,
             results |-> Append(results,
                            OutcomeRow(verdict, ctx, action, del.deleted, penalty, new_score)),
             calls |-> NotifyCalls(action, user_id, group_id, new_score, env.notify_ok)
                         \o del.calls,
             score |-> rep.score, treated |-> TRUE]

----------------------------------------------------------------------------
(* Group state, group configuration and task status in the cache           *)
(* (adapter/cache/redis_cache.py).                                         *)

_key_task_status(message_id) == <<"message", message_id, "status">>

set_group_state(st, t, group_id, state, ttl) ==
    redis_set(st, t, _key_group_state(group_id), json_dumps(state), ttl)

get_group_state(st, group_id) ==
    IF Exists(st, _key_group_state(group_id))
    THEN Some(json_loads(st.data[_key_group_state(group_id)])) ELSE None

set_group_config(st, t, group_id, config, ttl) ==
    redis_set(st, t, _key_group_config(group_id), json_dumps(config), ttl)

get_group_config(st, group_id) ==
    IF Exists(st, _key_group_config(group_id))
    THEN Some(json_loads(st.data[_key_group_config(group_id)])) ELSE None

set_task_status(st, t, message_id, status, ttl) ==
    redis_set(st, t, _key_task_status(message_id), status, ttl)

----------------------------------------------------------------------------
(* Durable rows (adapter/db/models.py) and the dictionaries built of them. *)
(* A timestamp is cached as its ISO text and parsed back when it is read.  *)

isoformat(t) == [iso |-> t]
fromisoformat(s) == s.iso

\* the primary key of the Group row of a chat, distinct from the chat id
GroupPk(chat_id) == chat_id + 10

GroupRow(chat_id, has_config) ==
    [id |-> GroupPk(chat_id), chat_id |-> chat_id, name |-> "g", has_config |-> has_config]

BotConfigRow(group_pk, spam_detection, threshold) ==
    [id |-> group_pk, group_id |-> group_pk, group_description |-> "d",
     spam_confidence_threshold |-> threshold,
     moderation_features |-> [spam_detection |-> spam_detection]]

MessageRow(id, user_id, group_id, message_type, content, created_at, media_summary) ==
    [id |-> id, user_id |-> user_id, group_id |-> group_id, message_type |-> message_type,
     content |-> content, created_at |-> created_at, media_summary |-> media_summary]

\* the state dictionary cached by the rehydrator and built by fetch_group_state
StateDict(group) ==
    [id |-> group.id, chat_id |-> group.chat_id, name |-> group.name,
     has_config |-> group.has_config]

\* the configuration dictionary cached by the rehydrator and built by
\* fetch_group_config (the fields the moderation engine reads)
ConfigDict(cfg) ==
    [id |-> cfg.id, group_id |-> cfg.group_id, group_description |-> cfg.group_description,
     spam_confidence_threshold |-> cfg.spam_confidence_threshold,
     moderation_features |-> cfg.moderation_features]

\* mutation of MessagePayload: the payload carries the id the next row will get
MessagePayloadNextId(m) ==
    [id |-> m.id + 1, type |-> m.message_type, text |-> m.content, user_id |-> m.user_id,
     group_id |-> m.group_id, created_at |-> isoformat(m.created_at)]

\* the payload log_message and the rehydrator cache for a Message row
MessagePayload(m) ==
    [id |-> m.id, type |-> m.message_type, text |-> m.content, user_id |-> m.user_id,
     group_id |-> m.group_id, created_at |-> isoformat(m.created_at)]

----------------------------------------------------------------------------
(* MessageService.log_message (service/message_service.py): the row is     *)
(* committed, then the task status and the three windows are written.      *)

log_message(st, t, messages, user_id, group_id, message_type, content, media_summary) ==
    LET msg == MessageRow(Len(messages) + 1, user_id, group_id, message_type, content,
                          t, media_summary)
        payload == MessagePayload(msg)
        s1 == set_task_status(st, t, msg.id, "pending", TASK_TTL)
        s2 == append_user_group_message(s1, t, msg.user_id, msg.group_id, payload,
                                        USER_CACHE_TTL, USER_CACHE_LIMIT)
        s3 == append_user_global_meta(s2, t, msg.user_id, payload,
                                      USER_GLOBAL_TTL, USER_CACHE_LIMIT)
        s4 == append_group_message(s3, t, msg.group_id, payload,
                                   GROUP_MSG_TTL, GROUP_MSG_LIMIT)
    IN  [store |-> s4, messages |-> Append(messages, msg), msg |-> msg]

----------------------------------------------------------------------------
(* Rehydrator (adapter/cache/rehydrate_caches.py).                         *)

MediaTypes == {"image", "audio", "video", "document", "GIF"}

_rehydrate_group_state_and_config(st, t, groups, botconfig, chat_id) ==
    IF chat_id \notin DOMAIN groups THEN st
    ELSE LET group == groups[chat_id]
             s1 == set_group_state(st, t, chat_id, StateDict(group), GROUP_STATE_TTL)
         IN  IF group.id \in DOMAIN botconfig
             THEN set_group_config(s1, t, chat_id, ConfigDict(botconfig[group.id]),
                                   GROUP_CONFIG_TTL)
             ELSE s1

\* mutation of RowsToReplay: the oldest `limit` rows of the group
RowsToReplayOldest(messages, chat_id, limit) ==
    LET rows == SelectSeq(messages, LAMBDA m : m.group_id = chat_id)
    IN  SubSeq(rows, 1, Min(Len(rows), limit))

\* the newest `limit` rows of the group, oldest first (rows are kept in
\* insertion order, which is the order of created_at)
RowsToReplay(messages, chat_id, limit) ==
    LET rows == SelectSeq(messages, LAMBDA m : m.group_id = chat_id)
    IN  SubSeq(rows, Max(Len(rows) - limit, 0) + 1, Len(rows))

RECURSIVE ReplayRows(_, _, _, _, _)
ReplayRows(st, t, rows, chat_id, limit) ==
    IF rows = << >> THEN st
    ELSE LET m == Head(rows)
             payload == MessagePayload(m)
             s1 == append_group_message(st, t, chat_id, payload, GROUP_MSG_TTL, limit)
             s2 == append_user_group_message(s1, t, m.user_id, chat_id, payload,
                                             USER_CACHE_TTL, limit)
             s3 == append_user_global_meta(s2, t, m.user_id, payload, USER_GLOBAL_TTL, limit)
             s4 == IF m.message_type \in MediaTypes
                   THEN append_user_group_enriched(s3, t, m.user_id, chat_id, m.id,
                                                   m.media_summary, isoformat(m.created_at),
                                                   USER_GLOBAL_TTL, USER_ENRICH_LIMIT)
                   ELSE s3
         IN  IF s4.data = s4.data   \* the row is written before the next one is taken
             THEN ReplayRows(s4, t, Tail(rows), chat_id, limit) ELSE s4

_rehydrate_messages_for_group(st, t, messages, chat_id, limit) ==
    ReplayRows(st, t, RowsToReplay(messages, chat_id, limit), chat_id, limit)

\* mutation of ScanUserGroup: SCAN MATCH user:*:group:<G>*
ScanUserGroupPrefix(st, group_chat_id) ==
    {k \in DOMAIN st.data :
        /\ Len(k) >= 4 /\ k[1] = "user" /\ k[3] = "group" /\ k[4] = group_chat_id}

\* SCAN MATCH user:*:group:<G> and user:*:group:<G>:enriched_recent
ScanUserGroup(st, group_chat_id) ==
    {k \in DOMAIN st.data :
        /\ Len(k) = 4 /\ k[1] = "user" /\ k[3] = "group" /\ k[4] = group_chat_id}

ScanUserGroupEnriched(st, group_chat_id) ==
    {k \in DOMAIN st.data :
        /\ Len(k) = 5 /\ k[1] = "user" /\ k[3] = "group" /\ k[4] = group_chat_id
        /\ k[5] = "enriched_recent"}

redis_delete_keys(st, keys) ==
    [data |-> Restrict(st.data, DOMAIN st.data \ keys),
     ttl |-> Restrict(st.ttl, DOMAIN st.ttl \ keys)]

\* the keys the clear step deletes
ClearedKeys(st, group_chat_id) ==
    {_key_group_state(group_chat_id), _key_group_config(group_chat_id),
     _key_group_msgs(group_chat_id)}
      \cup ScanUserGroup(st, group_chat_id) \cup ScanUserGroupEnriched(st, group_chat_id)

rehydrate_group_caches(st, t, groups, botconfig, messages, group_chat_id, limit, clear) ==
    LET cleared == IF clear THEN redis_delete_keys(st, ClearedKeys(st, group_chat_id)) ELSE st
        s1 == _rehydrate_group_state_and_config(cleared, t, groups, botconfig, group_chat_id)
    IN  _rehydrate_messages_for_group(s1, t, messages, group_chat_id, limit)

----------------------------------------------------------------------------
(* The rehydrator while one cache write fails.  A fault names the write    *)
(* that raises: the row it belongs to (0 for the state and the config) and *)
(* its kind.  A write that raises leaves the cache as it was; each write   *)
(* sits in its own try/except, so the next one is attempted.  The result   *)
(* carries the list of the writes that were attempted.                     *)

Attempt(row, write) == [row |-> row, write |-> write]

\* try: <write> except Exception: pass
TryWrite(st, written, fault, row, write) ==
    IF fault = Attempt(row, write) THEN st ELSE written

_rehydrate_group_state_and_config_fault(st, t, groups, botconfig, chat_id, fault) ==
    IF chat_id \notin DOMAIN groups THEN [store |-> st, attempts |-> << >>]
    ELSE LET group == groups[chat_id]
             s1 == TryWrite(st, set_group_state(st, t, chat_id, StateDict(group),
                                                GROUP_STATE_TTL), fault, 0, "state")
         IN  IF group.id \in DOMAIN botconfig
             THEN [store |-> TryWrite(s1, set_group_config(s1, t, chat_id,
                                             ConfigDict(botconfig[group.id]),
                                             GROUP_CONFIG_TTL), fault, 0, "config"),
                   attempts |-> <<Attempt(0, "state"), Attempt(0, "config")>>]
             ELSE [store |-> s1, attempts |-> <<Attempt(0, "state")>>]

\* mutation of ReplayRowsFault: the first write that raises ends the replay
RECURSIVE ReplayRowsAbort(_, _, _, _, _, _)
ReplayRowsAbort(st, t, rows, chat_id, limit, fault) ==
    IF rows = << >> THEN [store |-> st, attempts |-> << >>]
    ELSE LET m == Head(rows)
             payload == MessagePayload(m)
             s1 == append_group_message(st, t, chat_id, payload, GROUP_MSG_TTL, limit)
             s2 == append_user_group_message(s1, t, m.user_id, chat_id, payload,
                                             USER_CACHE_TTL, limit)
             s3 == append_user_global_meta(s2, t, m.user_id, payload, USER_GLOBAL_TTL, limit)
             s4 == IF m.message_type \in MediaTypes
                   THEN append_user_group_enriched(s3, t, m.user_id, chat_id, m.id,
                                                   m.media_summary, isoformat(m.created_at),
                                                   USER_GLOBAL_TTL, USER_ENRICH_LIMIT)
                   ELSE s3
             rest == IF s4.data = s4.data
                     THEN ReplayRowsAbort(s4, t, Tail(rows), chat_id, limit, fault)
                     ELSE [store |-> s4, attempts |-> << >>]
         IN  IF fault.row = m.id
             THEN [store |-> st, attempts |-> <<Attempt(m.id, "group")>>]
             ELSE [store |-> rest.store,
                   attempts |-> <<Attempt(m.id, "group"), Attempt(m.id, "user_group"),
                                  Attempt(m.id, "user_global")>>
                                \o (IF m.message_type \in MediaTypes
                                    THEN <<Attempt(m.id, "enriched")>> ELSE << >>)
                                \o rest.attempts]

\* the loop of _rehydrate_messages_for_group with its four try/except blocks
RECURSIVE ReplayRowsFault(_, _, _, _, _, _)
ReplayRowsFault(st, t, rows, chat_id, limit, fault) ==
    IF rows = << >> THEN [store |-> st, attempts |-> << >>]
    ELSE LET m == Head(rows)
             payload == MessagePayload(m)
             s1 == TryWrite(st, append_group_message(st, t, chat_id, payload,
                                                     GROUP_MSG_TTL, limit),
                            fault, m.id, "group")
             s2 == TryWrite(s1, append_user_group_message(s1, t, m.user_id, chat_id, payload,
                                                          USER_CACHE_TTL, limit),
                            fault, m.id, "user_group")
             s3 == TryWrite(s2, append_user_global_meta(s2, t, m.user_id, payload,
                                                        USER_GLOBAL_TTL, limit),
                            fault, m.id, "user_global")
             s4 == IF m.message_type \in MediaTypes
                   THEN TryWrite(s3, append_user_group_enriched(s3, t, m.user_id, chat_id,
                                         m.id, m.media_summary, isoformat(m.created_at),
                                         USER_GLOBAL_TTL, USER_ENRICH_LIMIT),
                                 fault, m.id, "enriched")
                   ELSE s3
             rest == IF s4.data = s4.data   \* the row is written before the next one is taken
                     THEN ReplayRowsFault(s4, t, Tail(rows), chat_id, limit, fault)
                     ELSE [store |-> s4, attempts |-> << >>]
         IN  [store |-> rest.store,
              attempts |-> <<Attempt(m.id, "group"), Attempt(m.id, "user_group"),
                             Attempt(m.id, "user_global")>>
                           \o (IF m.message_type \in MediaTypes
                               THEN <<Attempt(m.id, "enriched")>> ELSE << >>)
                           \o rest.attempts]

\* rehydrate_group_caches while the write `fault` raises: the store after the
\* call, the writes attempted, and whether the call returned normally
rehydrate_group_caches_fault(st, t, groups, botconfig, messages, group_chat_id, limit, clear, fault) ==
    LET cleared == IF clear THEN redis_delete_keys(st, ClearedKeys(st, group_chat_id)) ELSE st
        sc == _rehydrate_group_state_and_config_fault(cleared, t, groups, botconfig,
                                                      group_chat_id, fault)
        rp == ReplayRowsFault(sc.store, t, RowsToReplay(messages, group_chat_id, limit),
                              group_chat_id, limit, fault)
    IN  [store |-> rp.store, attempts |-> sc.attempts \o rp.attempts, returned |-> TRUE]

----------------------------------------------------------------------------
(* Context assembler (adapter/context_builder.py).                         *)

_key_rehydration_cooldown(group_id) == <<"group", group_id, "rehydration_cooldown">>

RECURSIVE MaxOf(_)
MaxOf(seq) == IF Len(seq) = 1 THEN seq[1] ELSE Max(seq[1], MaxOf(Tail(seq)))

\* the created_at values of the items that carry one
CreatedTimes(messages) ==
    LET with == SelectSeq(messages, LAMBDA m : "created_at" \in DOMAIN m /\ m.created_at # None)
    IN  [i \in 1..Len(with) |-> fromisoformat(with[i].created_at)]

\* mutation of is_stale_cache: the age of the newest item is not looked at
is_stale_cache_no_age(messages, t) == messages = << >>

\* is_stale_cache at time t; max() of no timestamp raises, which returns False
is_stale_cache(messages, t) ==
    IF messages = << >> THEN TRUE
    ELSE IF CreatedTimes(messages) = << >> THEN FALSE
    ELSE t - MaxOf(CreatedTimes(messages)) > STALE_WINDOW_SECS

fetch_group_config(groups, botconfig, group_id) ==
    IF group_id \notin DOMAIN groups THEN None
    ELSE IF groups[group_id].id \notin DOMAIN botconfig THEN None
    ELSE Some(ConfigDict(botconfig[groups[group_id].id]))

fetch_group_state(groups, group_id) ==
    IF group_id \notin DOMAIN groups THEN None ELSE Some(StateDict(groups[group_id]))

RECURSIVE InsertSorted(_, _)
InsertSorted(sorted, x) ==
    IF sorted = << >> THEN <<x>>
    ELSE IF x <= Head(sorted) THEN <<x>> \o sorted
    ELSE <<Head(sorted)>> \o InsertSorted(Tail(sorted), x)

RECURSIVE Sorted(_)
Sorted(seq) == IF seq = << >> THEN << >> ELSE InsertSorted(Sorted(Tail(seq)), Head(seq))

RECURSIVE SumOf(_)
SumOf(seq) == IF seq = << >> THEN 0 ELSE Head(seq) + SumOf(Tail(seq))

\* whether datetime.fromisoformat accepts the text of a timestamp
iso_valid(s) == "iso" \in DOMAIN s

\* the loop of compute_frequency_score over the records: a record without
\* created_at is passed over, and so is one whose created_at does not parse
FrequencyTimes(messages) ==
    LET with == SelectSeq(messages, LAMBDA m : /\ "created_at" \in DOMAIN m
                                               /\ m.created_at # None
                                               /\ iso_valid(m.created_at))
    IN  [i \in 1..Len(with) |-> fromisoformat(with[i].created_at)]

\* the default of the parameter tau, seconds
tau == 60

\* mutation of compute_frequency_score: the whole span stands for the average gap
compute_frequency_score_span(messages) ==
    LET times == Sorted(FrequencyTimes(messages))
        gaps == [i \in 1..(Len(times) - 1) |-> times[i + 1] - times[i]]
        deltas == SelectSeq(gaps, LAMBDA d : d > 0)
    IN  IF Len(messages) < 2 \/ Len(times) < 2 \/ deltas = << >>
        THEN [sum |-> 0, n |-> 0]
        ELSE [sum |-> SumOf(deltas), n |-> 1]

\* mutation of compute_frequency_score: the gaps of equal timestamps count
compute_frequency_score_all_gaps(messages) ==
    LET times == Sorted(FrequencyTimes(messages))
        gaps == [i \in 1..(Len(times) - 1) |-> times[i + 1] - times[i]]
    IN  IF Len(messages) < 2 \/ Len(times) < 2
        THEN [sum |-> 0, n |-> 0]
        ELSE [sum |-> SumOf(gaps), n |-> Len(gaps)]

\* compute_frequency_score: exp(-avg_delta / tau) of the positive gaps between
\* the sorted timestamps; the score is kept as the average it is the
\* exponential of, [sum, n] standing for exp(-(sum / n) / tau) and n = 0 for 0.0
compute_frequency_score(messages) ==
    LET times == Sorted(FrequencyTimes(messages))
        gaps == [i \in 1..(Len(times) - 1) |-> times[i + 1] - times[i]]
        deltas == SelectSeq(gaps, LAMBDA d : d > 0)
    IN  IF Len(messages) < 2 \/ Len(times) < 2 \/ deltas = << >>
        THEN [sum |-> 0, n |-> 0]
        ELSE [sum |-> SumOf(deltas), n |-> Len(deltas)]

ContextBundle(group_id, group_config, group_state, recent_group_messages, recent_user_messages, recent_user_enriched, user_global_meta, new_message, user_frequency) ==
    [group_id |-> group_id,
     group_description |-> IF group_config = None THEN None
                           ELSE IF "group_description" \in DOMAIN Val(group_config)
                           THEN Some(Val(group_config).group_description) ELSE None,
     group_config |-> group_config, group_state |-> group_state,
     recent_group_messages |-> recent_group_messages,
     recent_user_messages |-> recent_user_messages,
     recent_user_enriched |-> recent_user_enriched,
     user_global_meta |-> user_global_meta,
     new_message |-> new_message, user_frequency |-> user_frequency]

\* mutation of NeedsRehydrate: the cooldown flag is not consulted
NeedsRehydrateNoCooldown(skip_flag, recent_group_msgs, t) ==
    \/ recent_group_msgs = << >>
    \/ Len(recent_group_msgs) < MIN_CONTEXT_MSGS
    \/ is_stale_cache(recent_group_msgs, t)

\* the staleness guard of build_context
NeedsRehydrate(skip_flag, recent_group_msgs, t) ==
    /\ skip_flag = None
    /\ \/ recent_group_msgs = << >>
       \/ Len(recent_group_msgs) < MIN_CONTEXT_MSGS
       \/ is_stale_cache(recent_group_msgs, t)

\* mutation of build_context: the user windows are read again after the
\* rehydration, as the group window is
build_context_reread_all(st, t, groups, botconfig, messages, user_id, group_id, new_message) ==
    LET recent_group_messages == get_recent_group_messages(st, group_id, GROUP_MSG_LIMIT)
        recent_user_messages == get_recent_user_group_messages(st, user_id, group_id,
                                                               USER_CACHE_LIMIT)
        recent_user_enriched == get_recent_user_group_enriched(st, user_id, group_id,
                                                               USER_ENRICH_LIMIT)
        group_config == get_group_config(st, group_id)
        group_state == get_group_state(st, group_id)
        user_global_meta == get_recent_user_global_meta(st, user_id, USER_CACHE_LIMIT)
        skip_key == _key_rehydration_cooldown(group_id)
        skip_flag == IF Exists(st, skip_key) THEN Some(st.data[skip_key]) ELSE None
        rehydrate == NeedsRehydrate(skip_flag, recent_group_messages, t)
        s1 == IF rehydrate
              THEN rehydrate_group_caches(st, t, groups, botconfig, messages, group_id,
                                          CONTEXT_REPLAY_LIMIT, TRUE)
              ELSE st
        recent_group_msgs == IF rehydrate
                             THEN get_recent_group_messages(s1, group_id, GROUP_MSG_LIMIT)
                             ELSE recent_group_messages
        config == IF group_config = None
                  THEN fetch_group_config(groups, botconfig, group_id) ELSE group_config
        state == IF group_state = None THEN fetch_group_state(groups, group_id)
                 ELSE group_state
        user_messages == get_recent_user_group_messages(s1, user_id, group_id, USER_CACHE_LIMIT)
        user_enriched == get_recent_user_group_enriched(s1, user_id, group_id,
                                                        USER_ENRICH_LIMIT)
        global_meta == get_recent_user_global_meta(s1, user_id, USER_CACHE_LIMIT)
    IN  IF rehydrate /\ recent_group_msgs = << >>
        THEN [store |-> redis_set(s1, t, skip_key, "skip", EMPTY_DB_COOLDOWN_SECS),
              bundle |-> ContextBundle(group_id, None, None, << >>, << >>, << >>, << >>,
                                       new_message, None),
              rehydrated |-> TRUE, empty |-> TRUE]
        ELSE [store |-> s1,
              bundle |-> ContextBundle(group_id, config, state, recent_group_msgs,
                                       user_messages, user_enriched,
                                       global_meta, new_message,
                                       Some([within_group |->
                                                 compute_frequency_score(user_messages),
                                             across_groups |->
                                                 compute_frequency_score(global_meta)])),
              rehydrated |-> rehydrate, empty |-> FALSE]

\* build_context at time t: [store, bundle, rehydrated, empty]; rehydrated
\* tells whether rehydrate_group_caches was invoked and empty whether the
\* group window was still empty after it
build_context(st, t, groups, botconfig, messages, user_id, group_id, new_message) ==
    LET recent_group_messages == get_recent_group_messages(st, group_id, GROUP_MSG_LIMIT)
        recent_user_messages == get_recent_user_group_messages(st, user_id, group_id,
                                                               USER_CACHE_LIMIT)
        recent_user_enriched == get_recent_user_group_enriched(st, user_id, group_id,
                                                               USER_ENRICH_LIMIT)
        group_config == get_group_config(st, group_id)
        group_state == get_group_state(st, group_id)
        user_global_meta == get_recent_user_global_meta(st, user_id, USER_CACHE_LIMIT)
        skip_key == _key_rehydration_cooldown(group_id)
        skip_flag == IF Exists(st, skip_key) THEN Some(st.data[skip_key]) ELSE None
        rehydrate == NeedsRehydrate(skip_flag, recent_group_messages, t)
        s1 == IF rehydrate
              THEN rehydrate_group_caches(st, t, groups, botconfig, messages, group_id,
                                          CONTEXT_REPLAY_LIMIT, TRUE)
              ELSE st
        recent_group_msgs == IF rehydrate
                             THEN get_recent_group_messages(s1, group_id, GROUP_MSG_LIMIT)
                             ELSE recent_group_messages
        config == IF group_config = None
                  THEN fetch_group_config(groups, botconfig, group_id) ELSE group_config
        state == IF group_state = None THEN fetch_group_state(groups, group_id)
                 ELSE group_state
    IN  IF rehydrate /\ recent_group_msgs = << >>
        THEN [store |-> redis_set(s1, t, skip_key, "skip", EMPTY_DB_COOLDOWN_SECS),
              bundle |-> ContextBundle(group_id, None, None, << >>, << >>, << >>, << >>,
                                       new_message, None),
              rehydrated |-> TRUE, empty |-> TRUE]
        ELSE [store |-> s1,
              bundle |-> ContextBundle(group_id, config, state, recent_group_msgs,
                                       recent_user_messages, recent_user_enriched,
                                       user_global_meta, new_message,
                                       Some([within_group |->
                                                 compute_frequency_score(recent_user_messages),
                                             across_groups |->
                                                 compute_frequency_score(user_global_meta)])),
              rehydrated |-> rehydrate, empty |-> FALSE]

\* the six cache reads build_context gathers
FanOutReads ==
    {"get_recent_group_messages", "get_recent_user_group_messages",
     "get_recent_user_group_enriched", "get_group_config", "get_group_state",
     "get_recent_user_global_meta"}

\* build_context while the reads in `failed` raise: the reads catch nothing
\* and asyncio.gather, called without return_exceptions and outside the try
\* of build_context, raises the first exception to the caller
build_context_reads(st, t, groups, botconfig, messages, user_id, group_id, new_message, failed) ==
    IF failed # {}
    THEN [raised |-> TRUE, store |-> st, bundle |-> None]
    ELSE LET out == build_context(st, t, groups, botconfig, messages, user_id, group_id,
                                  new_message)
         IN  [raised |-> FALSE, store |-> out.store, bundle |-> Some(out.bundle)]

----------------------------------------------------------------------------
(* Per-group rate limit (adapter/telegram_middlewares.py): a token bucket  *)
(* kept in a hash and updated by one Lua script.  The parameters are the   *)
(* defaults of the decorator, scaled: capacity twice the refill, and the   *)
(* refill period one step of the clock.                                    *)

max_tokens == 2
refill_tokens == 1
refill_seconds == 150

_key_rate_group(chat_id) == <<"rate", "group", chat_id>>

\* int(time.time()): the seconds since the epoch, never 0
time_time(t) == t + 1

\* HSET key tokens <tokens> and HSET key ts <ts>: the TTL of the key is kept
redis_hset_bucket(st, key, tokens, ts) ==
    [st EXCEPT !.data = Put(st.data, key, [tokens |-> str_of_int(tokens),
                                           ts |-> str_of_int(ts)])]

\* mutation of token_bucket_script: a token is taken whether or not one is left
token_bucket_script_no_guard(st, t, key, now_arg, capacity, refill, interval) ==
    LET tokens0 == IF Exists(st, key) THEN int_of_str(st.data[key].tokens) ELSE capacity
        ts0 == IF Exists(st, key) THEN int_of_str(st.data[key].ts) ELSE 0
        last1 == IF ts0 = 0 THEN now_arg ELSE ts0
        elapsed == now_arg - last1
        refilled == elapsed >= interval
        tokens1 == IF refilled
                   THEN Min(capacity, tokens0 + (elapsed \div interval) * refill)
                   ELSE tokens0
        last2 == IF refilled THEN now_arg ELSE last1
    IN  [store |-> redis_expire(redis_hset_bucket(st, key, tokens1 - 1, last2), t, key,
                                interval * 2),
         remaining |-> tokens1 - 1, consumed |-> TRUE, refilled |-> refilled]

\* the Lua script, run by the server at time t as one step: the store after
\* it, the number it returns, whether it took a token and whether it refilled
token_bucket_script(st, t, key, now_arg, capacity, refill, interval) ==
    LET tokens0 == IF Exists(st, key) THEN int_of_str(st.data[key].tokens) ELSE capacity
        ts0 == IF Exists(st, key) THEN int_of_str(st.data[key].ts) ELSE 0
        last1 == IF ts0 = 0 THEN now_arg ELSE ts0
        elapsed == now_arg - last1
        refilled == elapsed >= interval
        tokens1 == IF refilled
                   THEN Min(capacity, tokens0 + (elapsed \div interval) * refill)
                   ELSE tokens0
        last2 == IF refilled THEN now_arg ELSE last1
    IN  IF tokens1 <= 0
        THEN [store |-> redis_hset_bucket(st, key, tokens1, last2),
              remaining |-> 0, consumed |-> FALSE, refilled |-> refilled]
        ELSE [store |-> redis_expire(redis_hset_bucket(st, key, tokens1 - 1, last2), t, key,
                                     interval * 2),
              remaining |-> tokens1 - 1, consumed |-> TRUE, refilled |-> refilled]

\* the wrapper of rate_limit_per_group once the script has answered: the
\* message is refused with a notice when the script returned 0
rate_limit_per_group(st, t, chat_id, now_arg) ==
    LET out == token_bucket_script(st, t, _key_rate_group(chat_id), now_arg, max_tokens,
                                   refill_tokens, refill_seconds)
    IN  [store |-> out.store, remaining |-> out.remaining, consumed |-> out.consumed,
         refilled |-> out.refilled,
         calls |-> IF out.remaining = 0
                   THEN <<[op |-> "send_message", handler |-> "rate_limit",
                           chat_id |-> chat_id, ok |-> TRUE]>>
                   ELSE << >>,
         handled |-> out.remaining # 0]

----------------------------------------------------------------------------
(* Histories kept for the properties (no code reads them).                 *)

HistAdd(h, st, key, item, limit) ==
    LET entry == [item |-> item, limit |-> limit]
        kept == Restrict(h, DOMAIN h \cap DOMAIN st.data)
    IN  IF key \in DOMAIN st.data
        THEN Put(kept, key, IF key \in DOMAIN kept THEN Append(kept[key], entry) ELSE <<entry>>)
        ELSE kept

HistKeep(h, st) == Restrict(h, DOMAIN h \cap DOMAIN st.data)

----------------------------------------------------------------------------
(* The clock: time passes and the store drops the keys whose TTL elapsed.  *)

Tick ==
    /\ now + TickSecs <= MaxTime
    /\ now' = now + TickSecs
    /\ redis' = redis_purge(redis, now + TickSecs)
    /\ hist' = HistKeep(hist, redis')
    /\ last' = [last EXCEPT !.op = "tick"]
    /\ UNCHANGED <<db_groups, db_botconfig, settings, db_messages, db_users, db_spamresults,
                   bot_calls, pending, rehydrate_calls>>

----------------------------------------------------------------------------
(* Specification SpecWin: callers of the append_* functions, each with an  *)
(* item and a limit of its choice.                                         *)

Limits == 1..MaxLimit

Payload(id, user_id, group_id, text, t) ==
    [id |-> id, type |-> "text", text |-> text, user_id |-> user_id,
     group_id |-> group_id, created_at |-> t]

InitDurable ==
    /\ db_groups = << >>
    /\ db_botconfig = << >>
    /\ db_messages = << >>
    /\ db_users = << >>
    /\ db_spamresults = << >>
    /\ bot_calls = << >>
    /\ pending = << >>
    /\ rehydrate_calls = << >>
    /\ settings = DefaultSettings

InitWin ==
    /\ redis = EmptyStore
    /\ now = 0
    /\ InitDurable
    /\ hist = << >>
    /\ last = [seq |-> 0, op |-> "init"]

WinFrame == UNCHANGED <<now, db_groups, db_botconfig, settings, db_messages, db_users,
                        db_spamresults, bot_calls, pending, rehydrate_calls>>

CallAppendUserGroupMessage ==
    \E u \in WinUsers, g \in WinGroups, id \in Ids, limit \in Limits :
        LET message == Payload(id, u, g, last.seq + 1, now)
        IN  /\ last.seq < MaxAppends
            /\ redis' = append_user_group_message(redis, now, u, g, message, USER_CACHE_TTL, limit)
            /\ hist' = HistAdd(hist, redis', _key_user_group(u, g), message, limit)
            /\ last' = [seq |-> last.seq + 1, op |-> "append_user_group_message"]
            /\ WinFrame

CallAppendUserGlobalMeta ==
    \E u \in WinUsers, g \in WinGroups, id \in Ids, limit \in Limits :
        LET meta == Payload(id, u, g, last.seq + 1, now)
        IN  /\ last.seq < MaxAppends
            /\ redis' = append_user_global_meta(redis, now, u, meta, USER_GLOBAL_TTL, limit)
            /\ hist' = HistAdd(hist, redis', _key_user_global(u), meta, limit)
            /\ last' = [seq |-> last.seq + 1, op |-> "append_user_global_meta"]
            /\ WinFrame

CallAppendGroupMessage ==
    \E u \in WinUsers, g \in WinGroups, id \in Ids, limit \in Limits :
        LET message == Payload(id, u, g, last.seq + 1, now)
        IN  /\ last.seq < MaxAppends
            /\ redis' = append_group_message(redis, now, g, message, GROUP_MSG_TTL, limit)
            /\ hist' = HistAdd(hist, redis', _key_group_msgs(g), message, limit)
            /\ last' = [seq |-> last.seq + 1, op |-> "append_group_message"]
            /\ WinFrame

CallAppendUserGroupEnriched ==
    \E u \in WinUsers, g \in WinGroups, id \in Ids, limit \in Limits :
        /\ last.seq < MaxAppends
        /\ redis' = append_user_group_enriched(redis, now, u, g, id, last.seq + 1, now,
                                               USER_GLOBAL_TTL, limit)
        /\ hist' = HistAdd(hist, redis', _key_user_group_enriched(u, g),
                           [id |-> id, summary |-> last.seq + 1, created_at |-> now], limit)
        /\ last' = [seq |-> last.seq + 1, op |-> "append_user_group_enriched"]
        /\ WinFrame

NextWin ==
    \/ CallAppendUserGroupMessage
    \/ CallAppendUserGlobalMeta
    \/ CallAppendGroupMessage
    \/ CallAppendUserGroupEnriched
    \/ Tick

SpecWin == InitWin /\ [][NextWin]_vars

\* the get_recent_* function that reads the window stored under a key
GetRecent(st, key, limit) ==
    IF key[1] = "group" THEN get_recent_group_messages(st, key[2], limit)
    ELSE IF Len(key) = 3 THEN get_recent_user_global_meta(st, key[2], limit)
    ELSE IF Len(key) = 4 THEN get_recent_user_group_messages(st, key[2], key[4], limit)
    ELSE get_recent_user_group_enriched(st, key[2], key[4], limit)

WindowKeys ==
    {_key_group_msgs(g) : g \in WinGroups} \cup {_key_user_global(u) : u \in WinUsers}
    \cup {_key_user_group(u, g) : u \in WinUsers, g \in WinGroups}
    \cup {_key_user_group_enriched(u, g) : u \in WinUsers, g \in WinGroups}

HistOf(key) == IF key \in DOMAIN hist THEN hist[key] ELSE << >>

DistinctIds(entries) ==
    \A i, j \in 1..Len(entries) : i # j => entries[i].item.id # entries[j].item.id

\* the last n appends to the key all used limit L and carried distinct ids
RunOf(key, n, L) ==
    /\ n <= Len(HistOf(key))
    /\ LET run == SubSeq(HistOf(key), Len(HistOf(key)) - n + 1, Len(HistOf(key)))
       IN  /\ \A i \in 1..n : run[i].limit = L
           /\ DistinctIds(run)

LastItems(key, n) ==
    [i \in 1..n |-> HistOf(key)[Len(HistOf(key)) - n + i].item]

\* C1: after N > L appends with pairwise-distinct ids and limit L to a window
\* key, the matching get_recent_* with limit L returns exactly the last L
\* appended items, in append order.
C1_ReadReturnsLastL ==
    \A key \in WindowKeys : \A L \in Limits : \A N \in (L + 1)..MaxAppends :
        RunOf(key, N, L) => GetRecent(redis, key, L) = LastItems(key, L)

C1_Witness ==
    \E key \in WindowKeys : \E L \in Limits :
        /\ L >= 2
        /\ RunOf(key, L + 1, L)
        /\ GetRecent(redis, key, L) = LastItems(key, L)

\* the last item appended to the key with the given id
RECURSIVE LastWithId(_, _)
LastWithId(entries, id) ==
    IF entries[Len(entries)].item.id = id THEN entries[Len(entries)].item
    ELSE LastWithId(SubSeq(entries, 1, Len(entries) - 1), id)

\* C2: after any sequence of appends to a window key, the list get_recent_*
\* returns holds no two items with the same id, holds at most limit items,
\* and each returned item is the most recently appended item with its id.
C2_ReadIsDeduplicated ==
    \A key \in WindowKeys : \A limit \in Limits :
        LET out == GetRecent(redis, key, limit)
        IN  /\ \A i, j \in 1..Len(out) : i # j => out[i].id # out[j].id
            /\ Len(out) <= limit
            /\ \A i \in 1..Len(out) :
                   /\ \E e \in 1..Len(HistOf(key)) : HistOf(key)[e].item.id = out[i].id
                   /\ out[i] = LastWithId(HistOf(key), out[i].id)

C2_Witness ==
    \E key \in WindowKeys :
        LET stored == redis_lrange(redis, key, 0, -1)
        IN  /\ Len(stored) = 2
            /\ json_loads(stored[1]).id = json_loads(stored[2]).id
            /\ json_loads(stored[1]) # json_loads(stored[2])
            /\ GetRecent(redis, key, 2) = <<json_loads(stored[2])>>

----------------------------------------------------------------------------
(* Specification SpecMod: the treatment engine called with verdicts and    *)
(* bundles of the caller's choice; the platform may refuse a send or a     *)
(* delete, the stores answer.                                              *)

Verdicts ==
    [spam : BOOLEAN, confidence : {30, 80}, reason : {"r"},
     categories : {<< >>, <<"link-flood">>, <<"scam", "promo">>}]

\* a group configuration as fetch_group_config and the rehydrator cache it
GroupConfig(spam_detection, threshold) ==
    [moderation_features |-> [spam_detection |-> spam_detection],
     spam_confidence_threshold |-> threshold]

ConfigChoices ==
    {None, Some(GroupConfig(TRUE, 70)), Some(GroupConfig(FALSE, 70)),
     Some(GroupConfig(TRUE, 90))}

NewMessage(id, user_id, group_id, telegram_message_id) ==
    [id |-> id, type |-> "text", text |-> "t", telegram_message_id |-> telegram_message_id,
     user_id |-> user_id, group_id |-> group_id]

\* durable scores the users start with: a user the engine penalised before
\* (0 is what set_reputation mirrors for a user whose score is exhausted)
InitScores == {0, 3, 25, 45, 65, 85, 100}

AllOk == [notify_ok |-> TRUE, delete_ok |-> TRUE, db_read_ok |-> TRUE, db_mirror_ok |-> TRUE]

PlatformEnvs ==
    [notify_ok : BOOLEAN, delete_ok : BOOLEAN, db_read_ok : {TRUE}, db_mirror_ok : {TRUE}]

InitMod ==
    /\ redis = EmptyStore
    /\ now = 0
    /\ db_groups = << >>
    /\ db_botconfig = << >>
    /\ db_messages = << >>
    /\ \/ \E s \in InitScores : db_users = [u \in ModUsers |-> s]
       \/ db_users = << >>
    /\ db_spamresults = << >>
    /\ bot_calls = << >>
    /\ pending = << >>
    /\ rehydrate_calls = << >>
    /\ settings = DefaultSettings
    /\ hist = << >>
    /\ last = [seq |-> 0, op |-> "init"]

\* history: whether the inputs of a treat_spam call ask for the deletion (the
\* verdict is spam, the platform message id is present, the configuration of
\* the bundle, or the defaults without one, enables detection and the
\* confidence reaches its threshold)
DeletionDue(config, verdict, tg) ==
    /\ verdict.spam
    /\ tg # None
    /\ config = None \/ Val(config).moderation_features.spam_detection
    /\ verdict.confidence >= (IF config = None THEN 70
                              ELSE Val(config).spam_confidence_threshold)

ModFrame == UNCHANGED <<now, db_groups, db_botconfig, settings, db_messages, pending,
                        rehydrate_calls, hist>>

CallTreatSpam ==
    \E u \in ModUsers, g \in Groups, verdict \in Verdicts, config \in ConfigChoices,
       tg \in {None, Some(7)}, env \in PlatformEnvs :
        /\ last.seq < MaxCalls
        /\ \E out \in {treat_spam(redis, now, db_users, db_spamresults, verdict,
                        ContextBundle(g, config, None, << >>, << >>, << >>, << >>,
                                      NewMessage(last.seq + 1, u, g, tg), None), env)} :
            /\ redis' = out.store
            /\ db_users' = out.users
            /\ db_spamresults' = out.results
            /\ bot_calls' = bot_calls \o out.calls
            /\ last' = [seq |-> last.seq + 1, op |-> "treat_spam", user_id |-> u,
                        group_id |-> g, verdict |-> verdict, score |-> out.score,
                        due |-> DeletionDue(config, verdict, tg), env |-> env]
            /\ ModFrame

\* a collaborator reads the reputation
CallGetReputation ==
    \E u \in ModUsers, g \in Groups :
        /\ last.seq < MaxCalls
        /\ \E rep \in {get_reputation(redis, now, db_users, u, g, TRUE)} :
            /\ redis' = rep.store
            /\ last' = [seq |-> last.seq + 1, op |-> "get_reputation", user_id |-> u,
                        group_id |-> g, score |-> rep.score]
            /\ UNCHANGED <<db_users, db_spamresults, bot_calls>>
            /\ ModFrame

NextMod == CallTreatSpam \/ CallGetReputation

SpecMod == InitMod /\ [][NextMod]_vars

\* the step is a treat_spam call
TreatStep == last'.seq # last.seq /\ last'.op = "treat_spam"

\* the reputation cached for (user, group): None when the key is absent
Cached(st, user_id, group_id) ==
    IF Exists(st, _key_reputation(user_id, group_id))
    THEN Some(int_of_str(st.data[_key_reputation(user_id, group_id)])) ELSE None

NewCalls == SubSeq(bot_calls', Len(bot_calls) + 1, Len(bot_calls'))
NewRows == SubSeq(db_spamresults', Len(db_spamresults) + 1, Len(db_spamresults'))

SelectSeq2(seq, op) == SelectSeq(seq, LAMBDA c : c.op = op)

\* C3: for a spam verdict, treat_spam selects exactly one action, fixed by the
\* new score alone: ban iff new <= BAN_THRESHOLD, probation iff BAN_THRESHOLD <
\* new <= PROBATION_THRESHOLD, warning_strong iff PROBATION_THRESHOLD < new <=
\* STRONG_WARNING_THRESHOLD, warning_mild iff STRONG_WARNING_THRESHOLD < new <=
\* WARNING_THRESHOLD, none otherwise; and it invokes exactly the notification
\* handler of that action (no handler for none).
C3_ActionByLadder ==
    [][(TreatStep /\ last'.verdict.spam) =>
         LET new == Val(Cached(redis', last'.user_id, last'.group_id))
             action == NewRows[1].treatment_action
             sends == SelectSeq2(NewCalls, "send_message")
         IN  /\ Len(NewRows) = 1
             /\ action \in {"ban", "probation", "warning_strong", "warning_mild", "none"}
             /\ action = "ban" <=> new <= BAN_THRESHOLD
             /\ action = "probation" <=> (BAN_THRESHOLD < new /\ new <= PROBATION_THRESHOLD)
             /\ action = "warning_strong" <=>
                    (PROBATION_THRESHOLD < new /\ new <= STRONG_WARNING_THRESHOLD)
             /\ action = "warning_mild" <=>
                    (STRONG_WARNING_THRESHOLD < new /\ new <= WARNING_THRESHOLD)
             /\ action = "none" <=> new > WARNING_THRESHOLD
             /\ IF action = "none" THEN sends = << >>
                ELSE /\ Len(sends) = 1
                     /\ sends[1].chat_id = last'.group_id
                     /\ sends[1].score = new
                     /\ sends[1].handler =
                            (CASE action = "ban" -> "handle_ban"
                               [] action = "probation" -> "handle_probation"
                               [] action = "warning_strong" -> "send_warning:strong"
                               [] action = "warning_mild" -> "send_warning:mild")]_vars

\* a spam verdict that lands exactly on a threshold was treated
C3_Witness ==
    /\ last.op = "treat_spam"
    /\ last.verdict.spam
    /\ Cached(redis, last.user_id, last.group_id) = Some(PROBATION_THRESHOLD)
    /\ db_spamresults[Len(db_spamresults)].treatment_action = "probation"
    /\ bot_calls # << >>
    /\ bot_calls[Len(bot_calls)].op = "send_message"
    /\ bot_calls[Len(bot_calls)].handler = "handle_probation"

C8_OneAuditRowPerSpam ==
    [][(TreatStep /\ last'.verdict.spam) =>
         LET new == Val(Cached(redis', last'.user_id, last'.group_id))
             deletes == SelectSeq2(NewCalls, "delete_message")
         IN  /\ Len(NewRows) = 1
             /\ \A i \in 1..Len(db_spamresults) :
                    db_spamresults[i].message_id # NewRows[1].message_id
             /\ NewRows[1].message_id = last'.seq
             /\ NewRows[1].spam = TRUE
             /\ NewRows[1].confidence = last'.verdict.confidence
             /\ NewRows[1].reason = last'.verdict.reason
             /\ NewRows[1].category =
                    (IF last'.verdict.categories = << >> THEN ""
                     ELSE Head(last'.verdict.categories))
             /\ NewRows[1].treatment_action = SelectAction(new)
             /\ NewRows[1].treatment_message =
                    (IF SelectAction(new) = "none" THEN None
                     ELSE Some([kind |-> SelectAction(new), score |-> new]))
             /\ NewRows[1].deleted = (\E i \in 1..Len(deletes) : deletes[i].ok)
             /\ NewRows[1].points_docked = compute_penalty(last'.verdict)
             /\ NewRows[1].final_reputation = Some(new)
             /\ new = Max(last'.score - NewRows[1].points_docked, 0)]_vars

\* a spam verdict was treated while the platform refused both the
\* notification and the deletion, and its row is there
C8_Witness ==
    /\ last.op = "treat_spam"
    /\ last.verdict.spam
    /\ Len(bot_calls) = 2
    /\ bot_calls[1].op = "send_message" /\ ~bot_calls[1].ok
    /\ bot_calls[2].op = "delete_message" /\ ~bot_calls[2].ok
    /\ Len(db_spamresults) = 1
    /\ db_spamresults[1].treatment_action = "ban"
    /\ ~db_spamresults[1].deleted

\* C10: with durable scores within [0, MAX_SCORE], the cached reputation of
\* every (user, group) is an integer in [0, MAX_SCORE] after any sequence of
\* treat_spam calls, and each spam verdict sets it to
\* max(previous score - penalty, 0).
C10_ReputationInRange ==
    /\ [](\A u \in ModUsers, g \in Groups :
             Cached(redis, u, g) # None => Val(Cached(redis, u, g)) \in 0..MAX_SCORE)
    /\ [][(TreatStep /\ last'.verdict.spam) =>
            /\ last'.score
                 = get_reputation(redis, now, db_users, last'.user_id, last'.group_id, TRUE).score
            /\ Cached(redis', last'.user_id, last'.group_id)
                 = Some(IF last'.score - compute_penalty(last'.verdict) >= 0
                        THEN last'.score - compute_penalty(last'.verdict) ELSE 0)]_vars

\* a penalty larger than the score left was applied and the score stopped at 0
C10_Witness ==
    /\ last.op = "treat_spam"
    /\ last.verdict.spam
    /\ last.score > 0
    /\ last.score < compute_penalty(last.verdict)
    /\ Cached(redis, last.user_id, last.group_id) = Some(0)

\* the step is a get_reputation call of a collaborator
GetStep == last'.seq # last.seq /\ last'.op = "get_reputation"

\* C11: on a cache miss get_reputation returns exactly the persisted score of
\* the user whenever a durable record with a score exists (every value in
\* [0, MAX_SCORE]) and DEFAULT_START_SCORE only when there is none; it caches
\* the value returned with no TTL, so that the next get_reputation for the key
\* returns the same value without the durable store.
C11_MissReturnsPersisted ==
    [][(GetStep /\ Cached(redis, last'.user_id, last'.group_id) = None) =>
         /\ last'.score = (IF last'.user_id \in DOMAIN db_users
                           THEN db_users[last'.user_id] ELSE DEFAULT_START_SCORE)
         /\ Cached(redis', last'.user_id, last'.group_id) = Some(last'.score)
         /\ _key_reputation(last'.user_id, last'.group_id) \notin DOMAIN redis'.ttl
         /\ get_reputation(redis', now', << >>, last'.user_id, last'.group_id, FALSE).score
              = last'.score]_vars

\* C13: for a spam verdict the side effects are individually fault-tolerant:
\* a failed notification prevents neither the deletion attempt nor the audit
\* record, a failed deletion does not prevent the audit record, which then
\* has deleted = false, and treat_spam completes.
C13_SideEffectsIndependent ==
    [][(TreatStep /\ last'.verdict.spam) =>
         LET sends == SelectSeq2(NewCalls, "send_message")
             deletes == SelectSeq2(NewCalls, "delete_message")
             due == last'.due
         IN  /\ Len(deletes) = (IF due THEN 1 ELSE 0)
             /\ Len(NewRows) = 1
             /\ NewRows[1].treatment_action # "none" => Len(sends) = 1
             /\ \A i \in 1..Len(sends) : sends[i].ok = last'.env.notify_ok
             /\ \A i \in 1..Len(deletes) : deletes[i].ok = last'.env.delete_ok
             /\ NewRows[1].deleted = (due /\ last'.env.delete_ok)]_vars

\* the notification was refused, the deletion went through and is recorded
C13_Witness ==
    /\ last.op = "treat_spam"
    /\ last.verdict.spam
    /\ ~last.env.notify_ok
    /\ last.env.delete_ok
    /\ Len(bot_calls) = 2
    /\ bot_calls[1].op = "send_message" /\ ~bot_calls[1].ok
    /\ bot_calls[2].op = "delete_message" /\ bot_calls[2].ok
    /\ Len(db_spamresults) = 1
    /\ db_spamresults[1].deleted

\* C19: reputation is a state machine per (user, group): a spam verdict
\* treated for user u in group g1 never changes the value get_reputation(u, g2)
\* returns for another group g2, also when the cache entry of (u, g2) is
\* absent at the time of the read.
C19_ReputationPerGroup ==
    [][(TreatStep /\ last'.verdict.spam) =>
         \A g2 \in Groups \ {last'.group_id} :
            get_reputation(redis', now', db_users', last'.user_id, g2, TRUE).score
              = get_reputation(redis, now, db_users, last'.user_id, g2, TRUE).score]_vars

----------------------------------------------------------------------------
(* Specification SpecModFault: treat_spam is called while the durable      *)
(* store may fail the reputation read and the mirror write of the call;    *)
(* the platform accepts every send and delete.                             *)

DbEnvs ==
    [notify_ok : {TRUE}, delete_ok : {TRUE}, db_read_ok : BOOLEAN, db_mirror_ok : BOOLEAN]

CallTreatSpamDbFault ==
    \E u \in ModUsers, g \in Groups, verdict \in Verdicts, config \in ConfigChoices,
       tg \in {None, Some(7)}, env \in DbEnvs :
        /\ last.seq < MaxCalls
        /\ \E out \in {treat_spam(redis, now, db_users, db_spamresults, verdict,
                        ContextBundle(g, config, None, << >>, << >>, << >>, << >>,
                                      NewMessage(last.seq + 1, u, g, tg), None), env)} :
            /\ redis' = out.store
            /\ db_users' = out.users
            /\ db_spamresults' = out.results
            /\ bot_calls' = bot_calls \o out.calls
            /\ last' = [seq |-> last.seq + 1, op |-> "treat_spam", user_id |-> u,
                        group_id |-> g, verdict |-> verdict, score |-> out.score,
                        due |-> DeletionDue(config, verdict, tg), env |-> env]
            /\ ModFrame

NextModFault == CallTreatSpamDbFault \/ CallGetReputation

SpecModFault == InitMod /\ [][NextModFault]_vars

\* C12: a treat_spam call with a spam verdict leaves the new score in the
\* cache whether or not the mirror write to the durable store succeeds; when
\* the mirror fails the durable score is not changed, the cached score is not
\* rolled back, and the call goes on to select the action of the new score,
\* send its notification and write the audit row.
C12_CacheWinsOverMirror ==
    [][(TreatStep /\ last'.verdict.spam) =>
         LET new_score == NewScore(last'.score, compute_penalty(last'.verdict))
         IN  /\ Cached(redis', last'.user_id, last'.group_id) = Some(new_score)
             /\ ~last'.env.db_mirror_ok => db_users' = db_users
             /\ Len(NewRows) = 1
             /\ NewRows[1].treatment_action = SelectAction(new_score)
             /\ NewRows[1].final_reputation = Some(new_score)
             /\ Len(SelectSeq2(NewCalls, "send_message"))
                  = (IF SelectAction(new_score) = "none" THEN 0 ELSE 1)]_vars

\* a spam verdict was treated while the mirror write failed: the durable
\* score is still the old one, the cache holds the lower new score and the
\* audit row of the action is written
C12_Witness ==
    /\ last.op = "treat_spam"
    /\ last.verdict.spam
    /\ ~last.env.db_mirror_ok
    /\ last.user_id \in DOMAIN db_users
    /\ Cached(redis, last.user_id, last.group_id) # None
    /\ Val(Cached(redis, last.user_id, last.group_id)) < db_users[last.user_id]
    /\ Len(db_spamresults) >= 1
    /\ db_spamresults[Len(db_spamresults)].treatment_action # "none"

----------------------------------------------------------------------------
(* Specification SpecRehydrate: messages are logged and an operator runs   *)
(* rehydrate_group_caches with a limit and a clear flag of its choice; the *)
(* durable store answers and nothing else writes to the cache.             *)

ReplayLimits == {1, CONTEXT_REPLAY_LIMIT}

\* what a message brings: its type and the summary of its media asset
MessageKinds ==
    {[type |-> "text", summary |-> None], [type |-> "image", summary |-> None],
     [type |-> "image", summary |-> Some("s")]}

InitRehydrate ==
    /\ redis = EmptyStore
    /\ now = 0
    /\ db_groups = [g \in Groups |-> GroupRow(g, g = 1)]
    /\ db_botconfig = [k \in {GroupPk(1)} |-> BotConfigRow(k, TRUE, 70)]
    /\ db_messages = << >>
    /\ db_users = [u \in ModUsers |-> DEFAULT_START_SCORE]
    /\ db_spamresults = << >>
    /\ bot_calls = << >>
    /\ pending = << >>
    /\ rehydrate_calls = << >>
    /\ settings = DefaultSettings
    /\ hist = << >>
    /\ last = [seq |-> 0, op |-> "init"]

LogMessage ==
    \E u \in ModUsers, g \in DOMAIN db_groups, kind \in MessageKinds :
        /\ Len(db_messages) < MaxMessages
        /\ \E out \in {log_message(redis, now, db_messages, u, g, kind.type, "t",
                                   kind.summary)} :
            /\ redis' = out.store
            /\ db_messages' = out.messages
            /\ last' = [seq |-> last.seq + 1, op |-> "log_message", user_id |-> u,
                        group_id |-> g]
        /\ UNCHANGED <<now, db_groups, db_botconfig, settings, db_users, db_spamresults, bot_calls,
                       pending, rehydrate_calls, hist>>

CallRehydrateGroup ==
    \E g \in Groups, limit \in ReplayLimits, clear \in BOOLEAN :
        /\ Len(rehydrate_calls) < MaxRehydrates
        /\ redis' = rehydrate_group_caches(redis, now, db_groups, db_botconfig, db_messages,
                                           g, limit, clear)
        /\ rehydrate_calls' = Append(rehydrate_calls,
                                     [group_id |-> g, at |-> now, caller |-> "operator",
                                      empty |-> get_recent_group_messages(
                                                    redis', g, GROUP_MSG_LIMIT) = << >>])
        /\ last' = [seq |-> last.seq + 1, op |-> "rehydrate_group_caches",
                    group_id |-> g, limit |-> limit, clear |-> clear]
        /\ UNCHANGED <<now, db_groups, db_botconfig, settings, db_messages, db_users, db_spamresults,
                       bot_calls, pending, hist>>

NextRehydrate == LogMessage \/ CallRehydrateGroup \/ Tick

SpecRehydrate == InitRehydrate /\ [][NextRehydrate]_vars

\* what the four get_recent_* functions return for every group and user
Windows(st) ==
    [group |-> [g \in Groups |-> get_recent_group_messages(st, g, GROUP_MSG_LIMIT)],
     user_group |-> [u \in ModUsers |-> [g \in Groups |->
                        get_recent_user_group_messages(st, u, g, USER_CACHE_LIMIT)]],
     user_global |-> [u \in ModUsers |-> get_recent_user_global_meta(st, u, USER_CACHE_LIMIT)],
     enriched |-> [u \in ModUsers |-> [g \in Groups |->
                        get_recent_user_group_enriched(st, u, g, USER_ENRICH_LIMIT)]]]

\* the step is the second of two consecutive runs of rehydrate_group_caches
\* with the same arguments
SecondRun ==
    /\ last.op = "rehydrate_group_caches"
    /\ last'.op = "rehydrate_group_caches"
    /\ last'.seq = last.seq + 1
    /\ last'.group_id = last.group_id
    /\ last'.limit = last.limit
    /\ last'.clear = last.clear

\* C7: rehydrate_group_caches(G, limit, clear) run twice consecutively against
\* an unchanged durable store, with no other cache writer, leaves after the
\* second run the window contents the first run left: the get_recent_*
\* functions return the same lists for the group window, every per-group user
\* window, every global user window and every enriched window.
C7_RehydrateTwiceSameWindows ==
    [][SecondRun => Windows(redis') = Windows(redis)]_vars

----------------------------------------------------------------------------
(* Specification SpecReplay: the durable store holds up to MaxReplayRows   *)
(* messages of two users in two groups, one second apart; the cache is     *)
(* empty or holds a reputation and a cooldown flag; an operator runs       *)
(* rehydrate_group_caches, and during a run one cache write may fail.      *)

\* what a durable message is made of
RowChoices ==
    {[user_id |-> 1, group_id |-> 1, type |-> "text", summary |-> None],
     [user_id |-> 2, group_id |-> 1, type |-> "image", summary |-> Some("s")],
     [user_id |-> 1, group_id |-> 2, type |-> "text", summary |-> None]}

DurableRows(c) ==
    [i \in 1..Len(c) |-> MessageRow(i, c[i].user_id, c[i].group_id, c[i].type, "t", i,
                                    c[i].summary)]

\* the cache after get_reputation(1, 1) of a new user and after build_context
\* set the cooldown flag of group 1
SeededStore ==
    redis_set(get_reputation(EmptyStore, 0, << >>, 1, 1, TRUE).store, 0,
              _key_rehydration_cooldown(1), "1", EMPTY_DB_COOLDOWN_SECS)

InitReplay ==
    /\ redis \in {EmptyStore, SeededStore}
    /\ now = MaxReplayRows
    /\ db_groups = [g \in Groups |-> GroupRow(g, g = 1)]
    /\ db_botconfig = [k \in {GroupPk(1)} |-> BotConfigRow(k, TRUE, 70)]
    /\ \E n \in 0..MaxReplayRows : \E c \in [1..n -> RowChoices] : db_messages = DurableRows(c)
    /\ db_users = << >>
    /\ db_spamresults = << >>
    /\ bot_calls = << >>
    /\ pending = << >>
    /\ rehydrate_calls = << >>
    /\ settings = DefaultSettings
    /\ hist = << >>
    /\ last = [seq |-> 0, op |-> "init"]

\* the writes of a run of rehydrate_group_caches(g, limit), any of which may fail
Faults(g, limit) ==
    {Attempt(0, "state"), Attempt(0, "config")}
      \cup {Attempt(i, w) : i \in {m \in DOMAIN db_messages : db_messages[m].group_id = g},
                            w \in {"group", "user_group", "user_global", "enriched"}}

CallRehydrateGroupWriteFails ==
    \E g \in Groups, limit \in ReplayLimits, clear \in BOOLEAN :
      \E fault \in Faults(g, limit) :
        /\ Len(rehydrate_calls) < MaxRehydrates
        /\ Cardinality({i \in DOMAIN rehydrate_calls : "fault" \in DOMAIN rehydrate_calls[i]})
             < MaxFaultyRuns
        /\ \E out \in {rehydrate_group_caches_fault(redis, now, db_groups, db_botconfig,
                                                    db_messages, g, limit, clear, fault)} :
            /\ redis' = out.store
            /\ last' = [seq |-> last.seq + 1, op |-> "rehydrate_group_caches_fault",
                        group_id |-> g, limit |-> limit, clear |-> clear, fault |-> fault,
                        attempts |-> out.attempts, returned |-> out.returned]
        /\ rehydrate_calls' = Append(rehydrate_calls,
                                     [group_id |-> g, at |-> now, caller |-> "operator",
                                      empty |-> get_recent_group_messages(
                                                    redis', g, GROUP_MSG_LIMIT) = << >>,
                                      fault |-> fault])
        /\ UNCHANGED <<now, db_groups, db_botconfig, settings, db_messages, db_users, db_spamresults,
                       bot_calls, pending, hist>>

NextReplay == CallRehydrateGroup \/ CallRehydrateGroupWriteFails

SpecReplay == InitReplay /\ [][NextReplay]_vars

\* the step is a run of rehydrate_group_caches in which every write succeeds
RehydrateStep == last'.seq # last.seq /\ last'.op = "rehydrate_group_caches"

\* the durable messages of a group, oldest first
RowsOf(g) == SelectSeq(db_messages, LAMBDA m : m.group_id = g)

\* the last k elements of a sequence
LastK(seq, k) == SubSeq(seq, Len(seq) - Min(k, Len(seq)) + 1, Len(seq))

\* the items a window key holds, as stored
Stored(st, key) ==
    IF key \in DOMAIN st.data
    THEN [i \in 1..Len(st.data[key]) |-> json_loads(st.data[key][i])] ELSE << >>

\* C14: after rehydrate_group_caches(G, n, clear = true) in which every write
\* succeeds, get_recent_group_messages(G) returns the payloads of the most
\* recent min(n, GROUP_MSG_LIMIT) durable messages of G in ascending created_at
\* order, and the per-group window of every user holds the payloads of that
\* user's messages among the n replayed ones, in the same order.
C14_ReplayFillsWindows ==
    [][(RehydrateStep /\ last'.clear) =>
         LET g == last'.group_id
             replayed == LastK(RowsOf(g), last'.limit)
             newest == LastK(RowsOf(g), Min(last'.limit, GROUP_MSG_LIMIT))
             read == get_recent_group_messages(redis', g, GROUP_MSG_LIMIT)
         IN  /\ read = [i \in 1..Len(newest) |-> MessagePayload(newest[i])]
             /\ \A i, j \in 1..Len(read) :
                   i < j => fromisoformat(read[i].created_at) < fromisoformat(read[j].created_at)
             /\ \A u \in Users :
                   LET mine == SelectSeq(replayed, LAMBDA m : m.user_id = u)
                   IN  /\ Stored(redis', _key_user_group(u, g))
                            = [i \in 1..Len(mine) |-> MessagePayload(mine[i])]
                       /\ get_recent_user_group_messages(redis', u, g, USER_CACHE_LIMIT)
                            = [i \in 1..Min(Len(mine), USER_CACHE_LIMIT) |->
                                 MessagePayload(LastK(mine, USER_CACHE_LIMIT)[i])]]_vars

\* a cleared replay of CONTEXT_REPLAY_LIMIT messages ran for a group that holds
\* more than GROUP_MSG_LIMIT durable messages of two users: the read returns
\* GROUP_MSG_LIMIT of them and both users have a window
C14_Witness ==
    /\ last.op = "rehydrate_group_caches"
    /\ last.clear
    /\ last.limit = CONTEXT_REPLAY_LIMIT
    /\ Len(RowsOf(last.group_id)) > GROUP_MSG_LIMIT
    /\ Len(get_recent_group_messages(redis, last.group_id, GROUP_MSG_LIMIT)) = GROUP_MSG_LIMIT
    /\ \A u \in Users : Stored(redis, _key_user_group(u, last.group_id)) # << >>

\* the step is a run of rehydrate_group_caches in which one write fails
FaultyRehydrateStep == last'.seq # last.seq /\ last'.op = "rehydrate_group_caches_fault"

\* the writes the replay of the rows owes, in order
RECURSIVE WritesOf(_)
WritesOf(rows) ==
    IF rows = << >> THEN << >>
    ELSE <<Attempt(Head(rows).id, "group"), Attempt(Head(rows).id, "user_group"),
           Attempt(Head(rows).id, "user_global")>>
         \o (IF Head(rows).message_type \in MediaTypes
             THEN <<Attempt(Head(rows).id, "enriched")>> ELSE << >>)
         \o WritesOf(Tail(rows))

\* the writes a run of rehydrate_group_caches(g, limit) owes, in order
WritesOwed(g, limit) ==
    (IF g \in DOMAIN db_groups
     THEN <<Attempt(0, "state")>>
          \o (IF db_groups[g].id \in DOMAIN db_botconfig THEN <<Attempt(0, "config")>>
              ELSE << >>)
     ELSE << >>)
    \o WritesOf(LastK(RowsOf(g), limit))

\* the key a write goes to
FaultKey(fault, g) ==
    CASE fault.write = "state" -> _key_group_state(g)
      [] fault.write = "config" -> _key_group_config(g)
      [] fault.write = "group" -> _key_group_msgs(g)
      [] fault.write = "user_group" -> _key_user_group(db_messages[fault.row].user_id, g)
      [] fault.write = "user_global" -> _key_user_global(db_messages[fault.row].user_id)
      [] fault.write = "enriched" ->
            _key_user_group_enriched(db_messages[fault.row].user_id, g)

\* C16: a run of rehydrate_group_caches during which one cache write fails
\* (state, config, group window, user-in-group window, user-global window or
\* enriched window) returns normally having attempted every write it owes, the
\* remaining ones of the same message and those of all later messages
\* included: every key but the one of the failed write ends as it ends in the
\* run without failure.
C16_ReplaySurvivesWriteFailure ==
    [][FaultyRehydrateStep =>
         \A whole \in {rehydrate_group_caches(redis, now, db_groups, db_botconfig,
                                               db_messages, last'.group_id, last'.limit,
                                               last'.clear)} :
             /\ last'.returned
             /\ last'.attempts = WritesOwed(last'.group_id, last'.limit)
             /\ \A k \in (DOMAIN whole.data \cup DOMAIN redis'.data)
                            \ {FaultKey(last'.fault, last'.group_id)} :
                   /\ k \in DOMAIN whole.data /\ k \in DOMAIN redis'.data
                   /\ redis'.data[k] = whole.data[k]
                   /\ (k \in DOMAIN redis'.ttl) = (k \in DOMAIN whole.ttl)
                   /\ k \in DOMAIN whole.ttl => redis'.ttl[k] = whole.ttl[k]]_vars

\* the append to the group window failed for a message that is not the last
\* one replayed: the message is missing in the group window and present in the
\* window of its user, and a later message is in the group window
C16_Witness ==
    /\ last.op = "rehydrate_group_caches_fault"
    /\ last.clear
    /\ last.fault.write = "group"
    /\ \E i \in DOMAIN last.attempts :
          /\ last.attempts[i] = last.fault
          /\ \E j \in DOMAIN last.attempts : j > i /\ last.attempts[j].row > last.fault.row
    /\ \A i \in DOMAIN Stored(redis, _key_group_msgs(last.group_id)) :
          Stored(redis, _key_group_msgs(last.group_id))[i].id # last.fault.row
    /\ \E i \in DOMAIN Stored(redis, _key_group_msgs(last.group_id)) :
          Stored(redis, _key_group_msgs(last.group_id))[i].id > last.fault.row
    /\ \E i \in DOMAIN Stored(redis, _key_user_group(db_messages[last.fault.row].user_id,
                                                     last.group_id)) :
          Stored(redis, _key_user_group(db_messages[last.fault.row].user_id,
                                        last.group_id))[i].id = last.fault.row

\* the keys scoped to group g that the clear step is to delete
GroupScoped(k, g) ==
    \/ k \in {_key_group_state(g), _key_group_config(g), _key_group_msgs(g)}
    \/ \E u \in Users : k \in {_key_user_group(u, g), _key_user_group_enriched(u, g)}

\* the keys the replay that follows the clear step writes
ReplayWritten(k, g) == GroupScoped(k, g) \/ \E u \in Users : k = _key_user_global(u)

\* C15: the clear step of rehydrate_group_caches(G, clear = true) deletes the
\* state, config and recent-message keys of G and every per-user window and
\* per-user enriched window of G, and no other key: what it leaves has the
\* value and expiry it had, and the reputation keys, the cooldown flag and the
\* windows of other groups are the same after the whole call.
C15_ClearDeletesOnlyGroupScope ==
    [][((RehydrateStep \/ FaultyRehydrateStep) /\ last'.clear) =>
         \A cleared \in {redis_delete_keys(redis, ClearedKeys(redis, last'.group_id))} :
             /\ DOMAIN cleared.data
                  = {k \in DOMAIN redis.data : ~GroupScoped(k, last'.group_id)}
             /\ \A k \in DOMAIN cleared.data : cleared.data[k] = redis.data[k]
             /\ DOMAIN cleared.ttl
                  = {k \in DOMAIN redis.ttl : ~GroupScoped(k, last'.group_id)}
             /\ \A k \in DOMAIN cleared.ttl : cleared.ttl[k] = redis.ttl[k]
             /\ \A k \in DOMAIN redis.data \cup DOMAIN redis'.data :
                   ~ReplayWritten(k, last'.group_id) =>
                      /\ k \in DOMAIN redis.data /\ k \in DOMAIN redis'.data
                      /\ redis'.data[k] = redis.data[k]]_vars

\* group 1 was cleared and replayed while the cache held a reputation of
\* group 1, the cooldown flag of group 1, a user-global window and the windows
\* of group 2: the reputation, the flag and the windows of group 2 are there
C15_Witness ==
    /\ last.op = "rehydrate_group_caches"
    /\ last.clear
    /\ last.group_id = 1
    /\ Len(rehydrate_calls) = 2
    /\ rehydrate_calls[1].group_id = 2
    /\ _key_reputation(1, 1) \in DOMAIN redis.data
    /\ _key_rehydration_cooldown(1) \in DOMAIN redis.data
    /\ Stored(redis, _key_group_msgs(2)) # << >>
    /\ Stored(redis, _key_user_group(1, 2)) # << >>
    /\ Stored(redis, _key_user_group_enriched(2, 1)) # << >>

----------------------------------------------------------------------------
(* Specification Spec: the message pipeline.  The handler logs a message   *)
(* and starts a background task that builds the context, obtains a verdict *)
(* and treats it; detect_and_treat_spam is also called for a message of    *)
(* the caller's choice.  The stores and the platform answer.               *)

PipelineVerdicts ==
    {[spam |-> TRUE, confidence |-> 80, reason |-> "r", categories |-> <<"scam", "promo">>],
     [spam |-> TRUE, confidence |-> 30, reason |-> "r", categories |-> <<"link-flood">>],
     [spam |-> FALSE, confidence |-> 80, reason |-> "r", categories |-> << >>]}

\* the configuration of group 1: detection disabled, a raised threshold, the defaults
PolicyChoices == {<<FALSE, 70>>, <<TRUE, 90>>, <<TRUE, 70>>}

Init ==
    /\ redis = EmptyStore
    /\ now = 0
    /\ db_groups = [g \in Groups |-> GroupRow(g, g = 1)]
    /\ \E c \in PolicyChoices :
         db_botconfig = [k \in {GroupPk(1)} |-> BotConfigRow(k, c[1], c[2])]
    /\ db_messages = << >>
    /\ db_users = [u \in ModUsers |-> DEFAULT_START_SCORE]
    /\ db_spamresults = << >>
    /\ bot_calls = << >>
    /\ pending = << >>
    /\ rehydrate_calls = << >>
    /\ settings = DefaultSettings
    /\ hist = << >>
    /\ last = [seq |-> 0, op |-> "init"]

Task(user_id, group_id, new_message, ctx) ==
    [user_id |-> user_id, group_id |-> group_id, new_message |-> new_message, ctx |-> ctx]

\* handle_message for a text message: log_message, then the background task
OnTextMessage ==
    \E u \in ModUsers, g \in DOMAIN db_groups :
        /\ Len(db_messages) < MaxMessages
        /\ last.seq < MaxTasks
        /\ Len(pending) < MaxPending
        /\ \E out \in {log_message(redis, now, db_messages, u, g, "text", "t", None)} :
            /\ redis' = out.store
            /\ db_messages' = out.messages
            /\ pending' = Append(pending,
                                 Task(u, g, NewMessage(out.msg.id, u, g, Some(out.msg.id + 100)),
                                      None))
            /\ last' = [seq |-> last.seq + 1, op |-> "log_message", user_id |-> u,
                        group_id |-> g]
        /\ UNCHANGED <<now, db_groups, db_botconfig, settings, db_users, db_spamresults, bot_calls,
                       rehydrate_calls, hist>>

\* detect_and_treat_spam called without a bundle, for a message the caller holds
CallDetectAndTreatSpam ==
    \E u \in ModUsers, g \in Groups, tg \in {None, Some(7)} :
        /\ last.seq < MaxTasks
        /\ Len(pending) < MaxPending
        /\ pending' = Append(pending, Task(u, g, NewMessage(0, u, g, tg), None))
        /\ last' = [seq |-> last.seq + 1, op |-> "detect_and_treat_spam", user_id |-> u,
                    group_id |-> g]
        /\ UNCHANGED <<redis, now, db_groups, db_botconfig, settings, db_messages, db_users,
                       db_spamresults, bot_calls, rehydrate_calls, hist>>

\* a task runs build_context
BuildContext ==
    \E i \in 1..Len(pending) :
        /\ pending[i].ctx = None
        /\ \E out \in {build_context(redis, now, db_groups, db_botconfig, db_messages,
                                     pending[i].user_id, pending[i].group_id,
                                     pending[i].new_message)} :
            /\ redis' = out.store
            /\ pending' = [pending EXCEPT ![i].ctx = Some(out.bundle)]
            /\ rehydrate_calls' =
                  IF out.rehydrated
                  THEN Append(rehydrate_calls,
                              [group_id |-> pending[i].group_id, at |-> now,
                               caller |-> "build_context", empty |-> out.empty])
                  ELSE rehydrate_calls
            /\ last' = [seq |-> last.seq, op |-> "build_context",
                        user_id |-> pending[i].user_id, group_id |-> pending[i].group_id,
                        rehydrated |-> out.rehydrated, bundle |-> out.bundle]
        /\ UNCHANGED <<now, db_groups, db_botconfig, settings, db_messages, db_users, db_spamresults,
                       bot_calls, hist>>

\* a task obtains the verdict of its bundle and treats it
DetectAndTreat ==
    \E i \in 1..Len(pending), verdict \in PipelineVerdicts :
        /\ pending[i].ctx # None
        /\ \E out \in {treat_spam(redis, now, db_users, db_spamresults, verdict,
                                  Val(pending[i].ctx), AllOk)} :
            /\ redis' = out.store
            /\ db_users' = out.users
            /\ db_spamresults' = out.results
            /\ bot_calls' = bot_calls \o out.calls
            /\ pending' = SubSeq(pending, 1, i - 1) \o SubSeq(pending, i + 1, Len(pending))
            /\ last' = [seq |-> last.seq, op |-> "treat_spam",
                        user_id |-> pending[i].user_id, group_id |-> pending[i].group_id,
                        verdict |-> verdict, score |-> out.score,
                        bundle |-> Val(pending[i].ctx)]
        /\ UNCHANGED <<now, db_groups, db_botconfig, settings, db_messages, rehydrate_calls, hist>>

Next == OnTextMessage \/ CallDetectAndTreatSpam \/ BuildContext \/ DetectAndTreat \/ Tick

Spec == Init /\ [][Next]_vars

\* the rehydrations build_context invoked
ByBuildContext(i) == rehydrate_calls[i].caller = "build_context"

\* C5: after a build_context call for group G whose rehydration yielded no
\* group messages, no later build_context call for G made before the cooldown
\* flag expires (EMPTY_DB_COOLDOWN_SECS) invokes rehydrate_group_caches.
C5_NoRehydrateInCooldown ==
    \A i, j \in 1..Len(rehydrate_calls) :
        (/\ i < j
         /\ ByBuildContext(i) /\ ByBuildContext(j)
         /\ rehydrate_calls[i].empty
         /\ rehydrate_calls[j].group_id = rehydrate_calls[i].group_id)
        => rehydrate_calls[j].at >= rehydrate_calls[i].at + EMPTY_DB_COOLDOWN_SECS

\* time passed after an empty rehydration, a message was logged for the
\* group, and the build_context call for it, still within the cooldown, ran
\* with a thin window and without rehydrating
C5_Witness ==
    /\ last.op = "build_context"
    /\ ~last.rehydrated
    /\ Len(last.bundle.recent_group_messages) < MIN_CONTEXT_MSGS
    /\ \E i \in 1..Len(rehydrate_calls) :
        /\ ByBuildContext(i)
        /\ rehydrate_calls[i].empty
        /\ rehydrate_calls[i].group_id = last.group_id
        /\ rehydrate_calls[i].at < now
        /\ now < rehydrate_calls[i].at + EMPTY_DB_COOLDOWN_SECS

\* the bundles built and not yet consumed
Bundles == {Val(pending[i].ctx) : i \in {k \in 1..Len(pending) : pending[k].ctx # None}}

HasDurableConfig(group_id) ==
    group_id \in DOMAIN db_groups /\ db_groups[group_id].id \in DOMAIN db_botconfig

\* C6: whenever the durable store holds the group record and its
\* configuration for the chat id, every ContextBundle build_context returns
\* has non-null group_state and group_config, whether or not the cache
\* entries exist and whichever branch of the staleness guard was taken.
C6_CriticalFieldsPresent ==
    \A b \in Bundles :
        HasDurableConfig(b.group_id) => (b.group_state # None /\ b.group_config # None)

\* the toggle and the threshold configured for the group; a group without a
\* BotConfig row has the column defaults
ConfiguredToggle(group_id) ==
    IF HasDurableConfig(group_id)
    THEN db_botconfig[db_groups[group_id].id].moderation_features.spam_detection
    ELSE TRUE

ConfiguredThreshold(group_id) ==
    IF HasDurableConfig(group_id)
    THEN db_botconfig[db_groups[group_id].id].spam_confidence_threshold
    ELSE 70

\* C9: the platform delete operation is invoked for a message only if the
\* group's spam-detection toggle is enabled, the verdict is spam, its
\* confidence is at least the group's configured threshold and the platform
\* message id is present, for every bundle build_context can return; a
\* missing platform message id gives no delete call and no error.
C9_DeleteOnlyUnderGroupPolicy ==
    [][(last'.op = "treat_spam" /\ Len(pending') < Len(pending)) =>
         LET deletes == SelectSeq2(NewCalls, "delete_message")
             tg == last'.bundle.new_message.telegram_message_id
         IN  /\ deletes # << >> =>
                   /\ ConfiguredToggle(last'.group_id)
                   /\ last'.verdict.spam
                   /\ last'.verdict.confidence >= ConfiguredThreshold(last'.group_id)
                   /\ tg # None
             /\ tg = None => (deletes = << >> /\ Len(NewRows) = 1)]_vars

\* the step is a build_context call of a task
BuildStep ==
    /\ last'.op = "build_context"
    /\ \E i \in 1..Len(pending) :
          /\ i <= Len(pending') /\ pending[i].ctx = None /\ pending'[i].ctx # None

\* C18: build_context invokes rehydrate_group_caches (the replay limit of the
\* call, clear = true) exactly when the cooldown flag of the group is absent
\* and the group-message window is empty, or holds fewer than MIN_CONTEXT_MSGS
\* items, or its newest created_at is more than STALE_WINDOW_SECS old; it
\* invokes it once then, and otherwise not at all and the cache is not written.
C18_RehydrateExactlyWhenThinOrStale ==
    [][BuildStep =>
         LET g == last'.group_id
             window == get_recent_group_messages(redis, g, GROUP_MSG_LIMIT)
             due == /\ _key_rehydration_cooldown(g) \notin DOMAIN redis.data
                    /\ \/ window = << >>
                       \/ Len(window) < MIN_CONTEXT_MSGS
                       \/ \A i \in 1..Len(window) :
                             now - fromisoformat(window[i].created_at) > STALE_WINDOW_SECS
         IN  /\ last'.rehydrated = due
             /\ Len(rehydrate_calls') = Len(rehydrate_calls) + (IF due THEN 1 ELSE 0)
             /\ due => /\ rehydrate_calls'[Len(rehydrate_calls')].group_id = g
                       /\ rehydrate_calls'[Len(rehydrate_calls')].caller = "build_context"
             /\ \A replayed \in {rehydrate_group_caches(redis, now, db_groups, db_botconfig,
                                                        db_messages, g, CONTEXT_REPLAY_LIMIT,
                                                        TRUE)} :
                   redis' \in (IF due
                               THEN {replayed,
                                     redis_set(replayed, now, _key_rehydration_cooldown(g),
                                               "skip", EMPTY_DB_COOLDOWN_SECS)}
                               ELSE {redis})]_vars

\* build_context rehydrated a group whose window held MIN_CONTEXT_MSGS
\* messages, all older than STALE_WINDOW_SECS and none expired yet
C18_Witness ==
    /\ last.op = "build_context"
    /\ last.rehydrated
    /\ now < GROUP_MSG_TTL
    /\ rehydrate_calls # << >>
    /\ rehydrate_calls[Len(rehydrate_calls)].at = now
    /\ Len(SelectSeq(db_messages, LAMBDA m : m.group_id = last.group_id)) >= MIN_CONTEXT_MSGS
    /\ \A i \in DOMAIN db_messages :
          /\ db_messages[i].created_at = 0
          /\ now - db_messages[i].created_at > STALE_WINDOW_SECS
    /\ Len(last.bundle.recent_group_messages) >= MIN_CONTEXT_MSGS

----------------------------------------------------------------------------
(* Specification SpecCacheFault: the pipeline, in which one of the six     *)
(* cache reads of a build_context call may fail.                           *)

\* a task runs build_context and one of its reads fails; a call that raises
\* ends the task
BuildContextReadFails ==
    \E i \in 1..Len(pending), read \in FanOutReads :
        /\ pending[i].ctx = None
        /\ \E out \in {build_context_reads(redis, now, db_groups, db_botconfig, db_messages,
                                           pending[i].user_id, pending[i].group_id,
                                           pending[i].new_message, {read})} :
            /\ redis' = out.store
            /\ pending' = IF out.raised
                          THEN SubSeq(pending, 1, i - 1) \o SubSeq(pending, i + 1, Len(pending))
                          ELSE [pending EXCEPT ![i].ctx = out.bundle]
            /\ last' = [seq |-> last.seq, op |-> "build_context_read_fails",
                        user_id |-> pending[i].user_id, group_id |-> pending[i].group_id,
                        failed |-> read, raised |-> out.raised, bundle |-> out.bundle]
        /\ UNCHANGED <<now, db_groups, db_botconfig, settings, db_messages, db_users, db_spamresults,
                       bot_calls, rehydrate_calls, hist>>

NextCacheFault ==
    OnTextMessage \/ CallDetectAndTreatSpam \/ BuildContext \/ BuildContextReadFails
      \/ DetectAndTreat \/ Tick

SpecCacheFault == Init /\ [][NextCacheFault]_vars

\* C17: a build_context call in which one of the six fan-out cache reads
\* fails does not raise: it returns a ContextBundle (the failed read taken as
\* empty or absent, the other five used).
C17_FailedReadYieldsBundle ==
    last.op = "build_context_read_fails" => (~last.raised /\ last.bundle # None)

----------------------------------------------------------------------------
(* Specification SpecBucket: handlers of rate-limited messages run         *)
(* concurrently; each reads the clock, then its script runs on the server, *)
(* in any order and after any delay.  hist keeps, for each bucket, the     *)
(* tokens it held after its last refill (or when it was created) and the   *)
(* tokens taken since.                                                     *)

InitBucket ==
    /\ redis = EmptyStore
    /\ now = 0
    /\ db_groups = << >>
    /\ db_botconfig = << >>
    /\ db_messages = << >>
    /\ db_users = << >>
    /\ db_spamresults = << >>
    /\ bot_calls = << >>
    /\ pending = << >>
    /\ rehydrate_calls = << >>
    /\ settings = DefaultSettings
    /\ hist = << >>
    /\ last = [seq |-> 0, op |-> "init"]

\* a handler starts: it reads the clock and sends the script
RateLimitEnter ==
    \E g \in Groups :
        /\ last.seq < MaxBucketCalls
        /\ Len(pending) < MaxHandlers
        /\ pending' = Append(pending, [group_id |-> g, now_arg |-> time_time(now)])
        /\ last' = [seq |-> last.seq + 1, op |-> "enter", group_id |-> g]
        /\ UNCHANGED <<redis, now, db_groups, db_botconfig, settings, db_messages, db_users,
                       db_spamresults, bot_calls, rehydrate_calls, hist>>

\* the script of one of the handlers runs and the handler goes on
RateLimitEval ==
    \E i \in 1..Len(pending) :
        \E out \in {rate_limit_per_group(redis, now, pending[i].group_id, pending[i].now_arg)} :
          LET key == _key_rate_group(pending[i].group_id)
              tokens == int_of_str(out.store.data[key].tokens)
              taken == IF out.consumed THEN 1 ELSE 0
          IN  /\ redis' = out.store
              /\ bot_calls' = bot_calls \o out.calls
              /\ pending' = SubSeq(pending, 1, i - 1) \o SubSeq(pending, i + 1, Len(pending))
              /\ hist' = IF ~Exists(redis, key) \/ out.refilled
                         THEN Put(hist, key, [avail |-> tokens + taken, consumed |-> taken])
                         ELSE [hist EXCEPT ![key].consumed = @ + taken]
              /\ last' = [seq |-> last.seq, op |-> "rate_limit",
                          group_id |-> pending[i].group_id, remaining |-> out.remaining,
                          consumed |-> out.consumed, refilled |-> out.refilled,
                          handled |-> out.handled]
              /\ UNCHANGED <<now, db_groups, db_botconfig, settings, db_messages, db_users,
                             db_spamresults, rehydrate_calls>>

NextBucket == RateLimitEnter \/ RateLimitEval \/ Tick

SpecBucket == InitBucket /\ [][NextBucket]_vars

\* C20: whatever the order in which the scripts of concurrent handlers of a
\* group run, the stored token count of the bucket stays within
\* 0..max_tokens, and the tokens taken since the last refill never exceed the
\* tokens the bucket held after it: each call that takes a token lowers the
\* count by one, so no two calls take the same token.
C20_BucketWithinCapacity ==
    \A g \in Groups :
        Exists(redis, _key_rate_group(g)) =>
            LET tokens == int_of_str(redis.data[_key_rate_group(g)].tokens)
                h == hist[_key_rate_group(g)]
            IN  /\ tokens >= 0
                /\ tokens <= max_tokens
                /\ h.consumed <= h.avail
                /\ tokens = h.avail - h.consumed

\* two handlers of a group were in flight together, the bucket was emptied and
\* refilled in part, and the script of a handler found it empty again
C20_Witness ==
    /\ last.op = "rate_limit"
    /\ ~last.consumed
    /\ last.remaining = 0
    /\ now >= refill_seconds
    /\ Exists(redis, _key_rate_group(last.group_id))
    /\ int_of_str(redis.data[_key_rate_group(last.group_id)].tokens) = 0
    /\ hist[_key_rate_group(last.group_id)].avail = refill_tokens
    /\ hist[_key_rate_group(last.group_id)].consumed = refill_tokens
    /\ pending # << >>
    /\ pending[1].group_id = last.group_id

----------------------------------------------------------------------------
(* Specification SpecSettings: a process starts with some of the threshold *)
(* variables set in its environment and treats verdicts.                   *)

ThresholdNames ==
    {"WARNING_THRESHOLD", "STRONG_WARNING_THRESHOLD", "PROBATION_THRESHOLD", "BAN_THRESHOLD"}

\* the values an operator gives a threshold
ThresholdValues == {20, 50, 90}

\* the environments: any of the four thresholds set, to any of the values
Environs ==
    UNION {[set -> {str_of_int(v) : v \in ThresholdValues}] : set \in SUBSET ThresholdNames}

InitSettings ==
    /\ redis = EmptyStore
    /\ now = 0
    /\ db_groups = << >>
    /\ db_botconfig = << >>
    /\ db_messages = << >>
    /\ db_users = [u \in ModUsers |-> DEFAULT_START_SCORE]
    /\ db_spamresults = << >>
    /\ bot_calls = << >>
    /\ pending = << >>
    /\ rehydrate_calls = << >>
    /\ \E environ \in Environs : settings = load_settings(environ)
    /\ hist = << >>
    /\ last = [seq |-> 0, op |-> "init"]

CallTreatSpamUnderSettings ==
    \E u \in ModUsers, g \in Groups, verdict \in Verdicts :
        /\ last.seq < MaxCalls
        /\ \E out \in {treat_spam_under(settings, redis, now, db_users, db_spamresults, verdict,
                        ContextBundle(g, None, None, << >>, << >>, << >>, << >>,
                                      NewMessage(last.seq + 1, u, g, Some(7)), None), AllOk)} :
            /\ redis' = out.store
            /\ db_users' = out.users
            /\ db_spamresults' = out.results
            /\ bot_calls' = bot_calls \o out.calls
            /\ last' = [seq |-> last.seq + 1, op |-> "treat_spam", user_id |-> u,
                        group_id |-> g, verdict |-> verdict, score |-> out.score]
            /\ ModFrame

NextSettings == CallTreatSpamUnderSettings

SpecSettings == InitSettings /\ [][NextSettings]_vars

ThresholdsOrdered(s) ==
    /\ s.BAN_THRESHOLD < s.PROBATION_THRESHOLD
    /\ s.PROBATION_THRESHOLD < s.STRONG_WARNING_THRESHOLD
    /\ s.STRONG_WARNING_THRESHOLD < s.WARNING_THRESHOLD
    /\ s.WARNING_THRESHOLD < s.MAX_SCORE

\* C21: a configuration whose thresholds are not strictly ordered
\* (BAN_THRESHOLD < PROBATION_THRESHOLD < STRONG_WARNING_THRESHOLD <
\* WARNING_THRESHOLD < MAX_SCORE) is rejected at load, so every verdict that is
\* treated is treated under ordered thresholds.
C21_TreatedUnderOrderedThresholds ==
    db_spamresults # << >> => ThresholdsOrdered(settings)

----------------------------------------------------------------------------
(* Specification SpecMalformed: callers append to the group window and to  *)
(* the user-in-group window, another client of the cache pushes an entry   *)
(* that is not JSON, and the windows are read with their default limits.   *)

MalformedEntry == [raw |-> "{"]

MalformedKeys ==
    {_key_group_msgs(g) : g \in WinGroups}
      \cup {_key_user_group(u, g) : u \in WinUsers, g \in WinGroups}

ForeignRpush ==
    \E key \in MalformedKeys :
        /\ Cardinality({k \in DOMAIN redis.data \cap MalformedKeys :
                          \E i \in 1..Len(redis.data[k]) : ~json_valid(redis.data[k][i])})
             < MaxMalformed
        /\ redis' = redis_rpush(redis, key, MalformedEntry)
        /\ last' = [seq |-> last.seq, op |-> "foreign_rpush", key |-> key]
        /\ UNCHANGED hist
        /\ WinFrame

DefaultLimit(key) == IF key[1] = "group" THEN GROUP_MSG_LIMIT ELSE USER_CACHE_LIMIT

CallGetRecent ==
    \E key \in MalformedKeys :
        /\ \E out \in {ReadWindowOrRaise(redis, key, DefaultLimit(key))} :
              last' = [seq |-> last.seq, op |-> "get_recent", key |-> key,
                       raised |-> out.raised, items |-> out.items]
        /\ UNCHANGED <<redis, hist>>
        /\ WinFrame

NextMalformed ==
    CallAppendUserGroupMessage \/ CallAppendGroupMessage \/ ForeignRpush \/ CallGetRecent

SpecMalformed == InitWin /\ [][NextMalformed]_vars

\* the well-formed items among the last `limit` entries of a window, parsed,
\* deduplicated keeping the newest of an id, oldest first
WellFormedItems(st, key, limit) ==
    LET items == SelectSeq(redis_lrange(st, key, -limit, -1), json_valid)
        parsed == [i \in 1..Len(items) |-> json_loads(items[i])]
    IN  Reverse(DedupRev(Reverse(parsed), {}))

\* C22: a read of a window that holds a malformed entry among well-formed
\* ones does not raise and returns the well-formed items, deduplicated and in
\* order.
C22_MalformedItemSkipped ==
    last.op = "get_recent" =>
        /\ ~last.raised
        /\ last.items = WellFormedItems(redis, last.key, DefaultLimit(last.key))

\* ---------------------------------------------------------------------------
\* The two scoring functions, applied to inputs their callers choose
\* ---------------------------------------------------------------------------

MaxTimestamps == 5

CategoryNames == {"promo", "off-topic", "link-flood", "harmful", "scam", "nsfw", "other"}

CategoryLists == {<< >>} \cup {<<c>> : c \in CategoryNames} \cup {<<"promo", "scam">>, <<"scam", "promo">>}

\* the verdicts handed to compute_penalty: every confidence of [0, 1] in hundredths
PenaltyVerdicts == {[spam |-> TRUE, confidence |-> c, categories |-> cats] : c \in 0..100, cats \in CategoryLists}

\* the records handed to compute_frequency_score: a timestamp that parses,
\* one that does not, an empty one, and none at all
StampedRecords == {[text |-> "m", created_at |-> isoformat(t)] : t \in {0, 10, 20, 30, 40, 600}}

UnstampedRecords == {[text |-> "m", created_at |-> [text |-> "yesterday"]], [text |-> "m", created_at |-> None], [text |-> "m"]}

RecordLists == UNION {[1..n -> StampedRecords \cup UnstampedRecords] : n \in 0..MaxTimestamps}

\* the inputs a caller hands to one of the two functions
ScoreInputs ==
    {[seq |-> 0, op |-> "input", fn |-> "compute_penalty", verdict |-> v] : v \in PenaltyVerdicts}
        \cup {[seq |-> 0, op |-> "input", fn |-> "compute_frequency_score", messages |-> m] : m \in RecordLists}

InitScoreInputs ==
    /\ redis = EmptyStore
    /\ now = 0
    /\ InitDurable
    /\ hist = << >>
    /\ last \in ScoreInputs

CallComputePenalty ==
    /\ last.op = "input"
    /\ last.fn = "compute_penalty"
    /\ last' = [seq |-> 0, op |-> "compute_penalty", verdict |-> last.verdict,
                penalty |-> compute_penalty(last.verdict)]
    /\ UNCHANGED <<redis, hist>>
    /\ WinFrame

CallComputeFrequencyScore ==
    /\ last.op = "input"
    /\ last.fn = "compute_frequency_score"
    /\ last' = [seq |-> 0, op |-> "compute_frequency_score", messages |-> last.messages,
                score |-> compute_frequency_score(last.messages)]
    /\ UNCHANGED <<redis, hist>>
    /\ WinFrame

NextScores == CallComputePenalty \/ CallComputeFrequencyScore

SpecScores == InitScoreInputs /\ [][NextScores]_vars

\* the base points the table gives the first category of a verdict
TableBase(cats) ==
    IF cats = << >> THEN 5
    ELSE CASE cats[1] \in {"promo", "off-topic"} -> 5
           [] cats[1] = "link-flood" -> 10
           [] cats[1] \in {"harmful", "scam", "nsfw"} -> 30
           [] OTHER -> 5

\* the least integer not below x / 100
CeilHundredths(x) == CHOOSE k \in 0..x : 100 * k >= x /\ 100 * (k - 1) < x

\* C23: compute_penalty(verdict) is ceil(base * max(confidence, 0.5)) with
\* base looked up from the first category (promo, off-topic 5; link-flood 10;
\* harmful, scam, nsfw 30; any other or none 5); for every confidence in
\* [0, 1] it is an integer in [3, 30], never 0.
C23_PenaltyIsScaledCeiling ==
    last.op = "compute_penalty" =>
        /\ last.penalty = CeilHundredths(TableBase(last.verdict.categories) * Max(last.verdict.confidence, 50))
        /\ last.penalty \in 3..30

\* a link-flood verdict at confidence 0.75 costs ceil(7.5) = 8 points
C23_Witness ==
    /\ last.op = "compute_penalty"
    /\ last.verdict.categories = <<"link-flood">>
    /\ last.verdict.confidence = 75
    /\ last.penalty = 8

\* the timestamps of a list of records that parse, as a set
ParsedStamps(messages) ==
    {messages[i].created_at.iso : i \in {j \in 1..Len(messages) : /\ "created_at" \in DOMAIN messages[j]
                                                                  /\ messages[j].created_at # None
                                                                  /\ "iso" \in DOMAIN messages[j].created_at}}

\* the number of records of a list whose timestamp parses
ParseableCount(messages) ==
    Cardinality({j \in 1..Len(messages) : /\ "created_at" \in DOMAIN messages[j]
                                          /\ messages[j].created_at # None
                                          /\ "iso" \in DOMAIN messages[j].created_at})

\* a score is 0.0
ScoreIsZero(score) == score.n = 0

\* a score lies in [0, 1]: it is 0.0 or the exponential of a non-positive number
ScoreInUnitInterval(score) == score.n = 0 \/ (score.n > 0 /\ score.sum >= 0)

\* C24: compute_frequency_score returns 0 whenever fewer than two records
\* carry a parseable timestamp, and when no two parsed timestamps differ; for
\* every input the score lies in [0, 1].
C24_FrequencyScoreZeroCases ==
    last.op = "compute_frequency_score" =>
        /\ ParseableCount(last.messages) < 2 => ScoreIsZero(last.score)
        /\ Cardinality(ParsedStamps(last.messages)) <= 1 => ScoreIsZero(last.score)
        /\ ScoreInUnitInterval(last.score)

\* three records of one instant and one whose timestamp does not parse
C24_Witness ==
    /\ last.op = "compute_frequency_score"
    /\ Len(last.messages) = 4
    /\ ParseableCount(last.messages) = 3
    /\ Cardinality(ParsedStamps(last.messages)) = 1
    /\ ScoreIsZero(last.score)

\* the records of a list all carry a parseable timestamp, each `gap` seconds
\* after the one before it
EvenlySpaced(messages, gap) ==
    /\ Len(messages) >= 2
    /\ \A i \in 1..Len(messages) : messages[i] \in StampedRecords
    /\ \A i \in 1..(Len(messages) - 1) : messages[i + 1].created_at.iso - messages[i].created_at.iso = gap

\* comparisons of a score exp(-x), x = sum / (n * tau), with a fraction: the
\* exponential falls as x grows, and ln(10/9) = 0.10536..., ln(5/4) = 0.22314...,
\* ln(100) = 4.60517...; no quotient the comparisons meet lies within a ten
\* thousandth of one of the three
ScoreAboveNineTenths(score) == score.n > 0 /\ score.sum * 10000 < 1054 * score.n * tau

ScoreBelowNineTenths(score) == score.n = 0 \/ score.sum * 10000 > 1053 * score.n * tau

ScoreAboveFourFifths(score) == score.n > 0 /\ score.sum * 10000 < 2231 * score.n * tau

ScoreBelowHundredth(score) == score.n = 0 \/ score.sum * 10000 > 46052 * score.n * tau

\* C25 as stated: with tau 60 s, timestamps spaced 10 s apart give a score
\* above 0.9, and timestamps spaced 600 s apart give a score below 0.01.
C25_TenSecondsAboveNineTenths ==
    last.op = "compute_frequency_score" =>
        /\ EvenlySpaced(last.messages, 10) => ScoreAboveNineTenths(last.score)
        /\ EvenlySpaced(last.messages, 600) => ScoreBelowHundredth(last.score)

\* C25, amended: with tau 60 s, timestamps spaced 10 s apart give the score
\* exp(-10 / 60), which lies between 0.8 and 0.9, and timestamps spaced 600 s
\* apart give a score below 0.01.
C25_TenSecondsBetweenFourFifthsAndNineTenths ==
    last.op = "compute_frequency_score" =>
        /\ EvenlySpaced(last.messages, 10) =>
               /\ ScoreAboveFourFifths(last.score)
               /\ ScoreBelowNineTenths(last.score)
        /\ EvenlySpaced(last.messages, 600) => ScoreBelowHundredth(last.score)

\* five timestamps 10 s apart: four gaps of 10 s, the score exp(-40 / (4 * 60))
C25_Witness ==
    /\ last.op = "compute_frequency_score"
    /\ Len(last.messages) = 5
    /\ EvenlySpaced(last.messages, 10)
    /\ last.score = [sum |-> 40, n |-> 4]

\* the number of entries of the list stored under a key
StoredLen(st, key) == IF key \in DOMAIN st.data THEN Len(st.data[key]) ELSE 0

\* C26: after any sequence of completed appends on a window key, live ones
\* with the default limit of the cache type and replayed ones with the limit
\* of the caller of the rehydration, the stored list holds at most the
\* configured limit of the cache type.
C26_StoredWithinConfiguredLimit ==
    \A u \in Users, g \in Groups :
        /\ StoredLen(redis, _key_user_group(u, g)) <= USER_CACHE_LIMIT
        /\ StoredLen(redis, _key_user_global(u)) <= USER_CACHE_LIMIT
        /\ StoredLen(redis, _key_group_msgs(g)) <= GROUP_MSG_LIMIT
        /\ StoredLen(redis, _key_user_group_enriched(u, g)) <= USER_ENRICH_LIMIT

\* ---------------------------------------------------------------------------
\* set_reputation calls in flight at once: each awaits its cache write, then
\* its durable write, and other calls run between the two
\* ---------------------------------------------------------------------------

MaxSetCalls == 3

SetScores == {0, 45, 100}

InitMirror ==
    /\ redis = EmptyStore
    /\ now = 0
    /\ db_groups = << >>
    /\ db_botconfig = << >>
    /\ db_messages = << >>
    /\ db_users = [u \in ModUsers |-> DEFAULT_START_SCORE]
    /\ db_spamresults = << >>
    /\ bot_calls = << >>
    /\ pending = << >>
    /\ rehydrate_calls = << >>
    /\ settings = DefaultSettings
    /\ hist = << >>
    /\ last = [seq |-> 0, op |-> "init"]

\* a call enters set_reputation and its cache write completes
SetReputationCache ==
    \E u \in ModUsers, g \in Groups, score \in SetScores :
        /\ Len(pending) < MaxSetCalls
        /\ redis' = set_reputation_cache(redis, now, u, g, score)
        /\ pending' = Append(pending, [op |-> "set_reputation", user_id |-> u, group_id |-> g,
                                       score |-> score, pc |-> "mirror", failed |-> FALSE])
        /\ last' = [seq |-> last.seq + 1, op |-> "set_reputation_cache"]
        /\ UNCHANGED <<now, db_groups, db_botconfig, settings, db_messages, db_users,
                       db_spamresults, bot_calls, rehydrate_calls, hist>>

\* the durable write of a call that made its cache write, and its return
SetReputationMirror ==
    \E i \in DOMAIN pending, db_ok \in BOOLEAN :
        /\ pending[i].pc = "mirror"
        /\ db_users' = set_reputation_mirror(db_users, pending[i].user_id, pending[i].score, db_ok)
        /\ pending' = [pending EXCEPT ![i].pc = "done", ![i].failed = ~db_ok]
        /\ last' = [seq |-> last.seq + 1, op |-> "set_reputation_mirror"]
        /\ UNCHANGED <<redis, now, db_groups, db_botconfig, settings, db_messages,
                       db_spamresults, bot_calls, rehydrate_calls, hist>>

NextMirror == SetReputationCache \/ SetReputationMirror

SpecMirror == InitMirror /\ [][NextMirror]_vars

\* every set_reputation call made so far was on (u, g), has returned, and met
\* no durable-store failure
AllSetCallsDone(u, g) ==
    /\ pending # << >>
    /\ \A i \in DOMAIN pending :
        /\ pending[i].user_id = u
        /\ pending[i].group_id = g
        /\ pending[i].pc = "done"
        /\ ~pending[i].failed

\* C27: for any interleaving of set_reputation calls on the same (user,
\* group), once all of them have completed without a durable-store failure the
\* score of the durable user record equals the cached score of the pair.
C27_DurableEqualsCachedScore ==
    \A u \in ModUsers, g \in Groups :
        AllSetCallsDone(u, g) =>
            db_users[u] = int_of_str(redis.data[_key_reputation(u, g)])

\* ---------------------------------------------------------------------------
\* Handlers and the rehydrator step by step: a task gives way to the others
\* at each call it awaits.  A task of `pending` records where it stands (pc),
\* whether it holds a durable-store session, the message it handles and, for
\* the rehydrator, the rows it selected and has not replayed yet.
\* ---------------------------------------------------------------------------

MaxStepMessages == 2

MaxStepRehydrates == 1

StepKinds == {"text", "image"}

InitSteps ==
    /\ redis = EmptyStore
    /\ now = 0
    /\ db_groups = [g \in Groups |-> GroupRow(g, g = 1)]
    /\ db_botconfig = [k \in {GroupPk(1)} |-> BotConfigRow(k, TRUE, 70)]
    /\ db_messages = << >>
    /\ db_users = [u \in ModUsers |-> DEFAULT_START_SCORE]
    /\ db_spamresults = << >>
    /\ bot_calls = << >>
    /\ pending = << >>
    /\ rehydrate_calls = << >>
    /\ settings = DefaultSettings
    /\ hist = [overlap |-> FALSE]
    /\ last = [seq |-> 0, op |-> "init"]

StepFrame == UNCHANGED <<db_groups, db_botconfig, settings, db_users, db_spamresults, bot_calls, rehydrate_calls, hist>>

StepTask(op, pc, session, user_id, group_id, msg, kind, rows) ==
    [op |-> op, pc |-> pc, session |-> session, user_id |-> user_id, group_id |-> group_id,
     msg |-> msg, kind |-> kind, rows |-> rows]

\* the places of a handler inside log_message, named by the write it awaits
LogWrites == {"log_status", "log_user_group", "log_user_global", "log_group"}

\* the subsystem of the call a task awaits next: "cache", "enrichment", the
\* durable store of the session itself ("db"), or none when it returns
NextCall(task, messages) ==
    CASE task.pc \in LogWrites -> "cache"
      [] task.pc = "parse_begin" -> "db"
      [] task.pc = "parse_enrich" -> IF task.kind = "image" THEN "enrichment" ELSE "db"
      [] task.pc = "parse_append" ->
            IF messages[task.msg].media_summary # None /\ task.kind \in MediaTypes
            THEN "cache" ELSE "none"
      [] task.pc \in {"clear", "state_config", "replay"} -> "cache"
      [] task.pc = "select" -> "db"
      [] OTHER -> "none"

\* log_message up to its commit: the session is acquired, the row inserted
\* and committed; a message arrives a second after the one before it; history:
\* whether a log_message call began while another had not returned
LogMessageCommit ==
    \E u \in ModUsers, g \in WinGroups, kind \in StepKinds :
        /\ Len(db_messages) < MaxStepMessages
        /\ now' = now + 1
        /\ db_messages' = Append(db_messages, MessageRow(Len(db_messages) + 1, u, g, kind, "t", now', None))
        /\ pending' = Append(pending, StepTask("handle_message", "log_status", TRUE, u, g,
                                               Len(db_messages) + 1, kind, << >>))
        /\ hist' = [overlap |-> hist.overlap \/ \E i \in DOMAIN pending : pending[i].pc \in LogWrites]
        /\ last' = [seq |-> 0, op |-> "log_message_commit"]
        /\ UNCHANGED <<redis, db_groups, db_botconfig, settings, db_users, db_spamresults, bot_calls, rehydrate_calls>>

\* one awaited cache write of log_message; after the last the function
\* returns and its session is released
LogMessageWrite ==
    \E i \in DOMAIN pending :
        LET task == pending[i]
            msg == db_messages[task.msg]
            payload == MessagePayload(msg)
        IN  /\ task.pc \in LogWrites
            /\ redis' = CASE task.pc = "log_status" ->
                                set_task_status(redis, now, msg.id, "pending", TASK_TTL)
                          [] task.pc = "log_user_group" ->
                                append_user_group_message(redis, now, msg.user_id, msg.group_id,
                                                          payload, USER_CACHE_TTL, USER_CACHE_LIMIT)
                          [] task.pc = "log_user_global" ->
                                append_user_global_meta(redis, now, msg.user_id, payload,
                                                        USER_GLOBAL_TTL, USER_CACHE_LIMIT)
                          [] task.pc = "log_group" ->
                                append_group_message(redis, now, msg.group_id, payload,
                                                     GROUP_MSG_TTL, GROUP_MSG_LIMIT)
            /\ pending' = [pending EXCEPT ![i].pc =
                              CASE task.pc = "log_status" -> "log_user_group"
                                [] task.pc = "log_user_group" -> "log_user_global"
                                [] task.pc = "log_user_global" -> "log_group"
                                [] task.pc = "log_group" -> "parse_begin",
                           ![i].session = task.pc # "log_group"]
            /\ last' = [seq |-> 0, op |-> "log_message_write"]
            /\ UNCHANGED <<now, db_messages>>
            /\ StepFrame

\* parse_message up to its select: the session is acquired and the row read
ParseMessageSelect ==
    \E i \in DOMAIN pending :
        /\ pending[i].pc = "parse_begin"
        /\ pending' = [pending EXCEPT ![i].pc = "parse_enrich", ![i].session = TRUE]
        /\ last' = [seq |-> 0, op |-> "parse_message_select"]
        /\ UNCHANGED <<redis, now, db_messages>>
        /\ StepFrame

\* _parse_image awaits the enrichment pipeline, which yields a description
\* or raises (the error is stored and no summary is); _parse_text copies the
\* content; then processed is set and committed
ParseMessageEnrich ==
    \E i \in DOMAIN pending, enriched \in BOOLEAN :
        /\ pending[i].pc = "parse_enrich"
        /\ pending[i].kind = "text" => enriched
        /\ db_messages' = [db_messages EXCEPT ![pending[i].msg].media_summary =
                              IF enriched THEN Some("s") ELSE None]
        /\ pending' = [pending EXCEPT ![i].pc = "parse_append"]
        /\ last' = [seq |-> 0, op |-> "parse_message_enrich"]
        /\ UNCHANGED <<redis, now>>
        /\ StepFrame

\* the end of parse_message: a media message with a summary is appended to
\* the enriched window; the function returns and its session is released
ParseMessageAppend ==
    \E i \in DOMAIN pending :
        LET task == pending[i]
            msg == db_messages[task.msg]
        IN  /\ task.pc = "parse_append"
            /\ redis' = IF msg.media_summary # None /\ msg.message_type \in MediaTypes
                        THEN append_user_group_enriched(redis, now, msg.user_id, msg.group_id,
                                                        msg.id, msg.media_summary,
                                                        isoformat(msg.created_at),
                                                        USER_GLOBAL_TTL, USER_ENRICH_LIMIT)
                        ELSE redis
            /\ pending' = [pending EXCEPT ![i].pc = "done", ![i].session = FALSE]
            /\ last' = [seq |-> 0, op |-> "parse_message_append"]
            /\ UNCHANGED <<now, db_messages>>
            /\ StepFrame

\* build_context calls rehydrate_group_caches(group_id, limit=50, clear=True)
RehydrateEnter ==
    \E g \in Groups :
        /\ Cardinality({i \in DOMAIN pending : pending[i].op = "rehydrate_group_caches"}) < MaxStepRehydrates
        /\ pending' = Append(pending, StepTask("rehydrate_group_caches", "clear", FALSE, 0, g,
                                               0, "none", << >>))
        /\ last' = [seq |-> 0, op |-> "rehydrate_enter"]
        /\ UNCHANGED <<redis, now, db_messages>>
        /\ StepFrame

\* the clear step; then the session of the replay is acquired
RehydrateClear ==
    \E i \in DOMAIN pending :
        /\ pending[i].pc = "clear"
        /\ redis' = redis_delete_keys(redis, ClearedKeys(redis, pending[i].group_id))
        /\ pending' = [pending EXCEPT ![i].pc = "state_config", ![i].session = TRUE]
        /\ last' = [seq |-> 0, op |-> "rehydrate_clear"]
        /\ UNCHANGED <<now, db_messages>>
        /\ StepFrame

\* _rehydrate_group_state_and_config with the session held
RehydrateStateConfig ==
    \E i \in DOMAIN pending :
        /\ pending[i].pc = "state_config"
        /\ redis' = _rehydrate_group_state_and_config(redis, now, db_groups, db_botconfig,
                                                      pending[i].group_id)
        /\ pending' = [pending EXCEPT ![i].pc = "select"]
        /\ last' = [seq |-> 0, op |-> "rehydrate_state_config"]
        /\ UNCHANGED <<now, db_messages>>
        /\ StepFrame

\* the select of _rehydrate_messages_for_group; with no row the function
\* returns and the session is released
RehydrateSelect ==
    \E i \in DOMAIN pending :
        LET rows == RowsToReplay(db_messages, pending[i].group_id, CONTEXT_REPLAY_LIMIT)
        IN  /\ pending[i].pc = "select"
            /\ pending' = [pending EXCEPT ![i].rows = rows,
                                          ![i].pc = IF rows = << >> THEN "done" ELSE "replay",
                                          ![i].session = rows # << >>]
            /\ last' = [seq |-> 0, op |-> "rehydrate_select"]
            /\ UNCHANGED <<redis, now, db_messages>>
            /\ StepFrame

\* one turn of the replay loop: the three appends of the row and, for a media
\* row, the append of the summary its media asset has by now; after the last
\* row the function returns and the session is released
RehydrateReplayRow ==
    \E i \in DOMAIN pending :
        LET task == pending[i]
            m == Head(task.rows)
            row == [m EXCEPT !.media_summary = db_messages[m.id].media_summary]
        IN  /\ task.pc = "replay"
            /\ redis' = ReplayRows(redis, now, <<row>>, task.group_id, CONTEXT_REPLAY_LIMIT)
            /\ pending' = [pending EXCEPT ![i].rows = Tail(task.rows),
                                          ![i].pc = IF Tail(task.rows) = << >> THEN "done" ELSE "replay",
                                          ![i].session = Tail(task.rows) # << >>]
            /\ last' = [seq |-> 0, op |-> "rehydrate_replay_row"]
            /\ UNCHANGED <<now, db_messages>>
            /\ StepFrame

NextSteps ==
    \/ LogMessageCommit
    \/ LogMessageWrite
    \/ ParseMessageSelect
    \/ ParseMessageEnrich
    \/ ParseMessageAppend
    \/ RehydrateEnter
    \/ RehydrateClear
    \/ RehydrateStateConfig
    \/ RehydrateSelect
    \/ RehydrateReplayRow

SpecSteps == InitSteps /\ [][NextSteps]_vars

\* C28: no durable-store session is held open while its holder awaits a call
\* to another subsystem (cache store, platform API, enrichment pipeline), in
\* rehydrate_group_caches, log_message and parse_message; and every acquired
\* session is released on every exit path.
C28_NoSessionAcrossExternalCall ==
    \A i \in DOMAIN pending :
        /\ pending[i].session => NextCall(pending[i], db_messages) \notin {"cache", "platform", "enrichment"}
        /\ pending[i].pc = "done" => ~pending[i].session

\* C29: an enriched record for a message is present in an enriched-summary
\* window only after the enrichment of the message has completed and produced
\* a summary, on the live path and on the replay: no record is appended for a
\* message whose summary is absent.
C29_EnrichedOnlyWithSummary ==
    \A u \in ModUsers, g \in Groups :
        \A i \in DOMAIN Stored(redis, _key_user_group_enriched(u, g)) :
            LET record == Stored(redis, _key_user_group_enriched(u, g))[i]
            IN  /\ record.summary # None
                /\ db_messages[record.id].media_summary # None

\* the items of a list are in non-decreasing order of created_at
Chronological(items) ==
    \A i \in 1..(Len(items) - 1) :
        fromisoformat(items[i].created_at) <= fromisoformat(items[i + 1].created_at)

\* every handler and every rehydration begun so far has returned
AllStepsCompleted == pending # << >> /\ \A i \in DOMAIN pending : pending[i].pc = "done"

\* a rehydration is among the operations begun so far
RehydrationTookPart == \E i \in DOMAIN pending : pending[i].op = "rehydrate_group_caches"

\* C30: after any interleaving of live appends (log_message) with a
\* rehydration (clear, then replay) on the same group, once all operations
\* have completed the reads of every message window return their items in
\* non-decreasing order of created_at (stated for the live appends that do
\* not overlap one another, each interleaved with the rehydration alone).
C30_WindowsChronological ==
    AllStepsCompleted /\ RehydrationTookPart /\ ~hist.overlap =>
        \A u \in ModUsers, g \in Groups :
            /\ Chronological(get_recent_group_messages(redis, g, GROUP_MSG_LIMIT))
            /\ Chronological(get_recent_user_group_messages(redis, u, g, USER_CACHE_LIMIT))
            /\ Chronological(get_recent_user_global_meta(redis, u, USER_CACHE_LIMIT))

\* ---------------------------------------------------------------------------
\* treat_spam calls run as detached tasks: each awaits get_reputation, then
\* set_reputation, and other tasks run between the two
\* ---------------------------------------------------------------------------

MaxTreatCalls == 3

SpamVerdicts == {[spam |-> TRUE, confidence |-> 50, reason |-> "r", categories |-> <<"promo">>], [spam |-> TRUE, confidence |-> 100, reason |-> "r", categories |-> <<"link-flood">>], [spam |-> TRUE, confidence |-> 100, reason |-> "r", categories |-> <<"scam">>]}

\* a spam evaluation reaches treat_spam and its get_reputation returns
TreatSpamRead ==
    \E u \in ModUsers, g \in Groups, verdict \in SpamVerdicts :
        /\ Len(pending) < MaxTreatCalls
        /\ \E out \in {get_reputation(redis, now, db_users, u, g, TRUE)} :
            /\ redis' = out.store
            /\ pending' = Append(pending, [op |-> "treat_spam", user_id |-> u, group_id |-> g,
                                           score |-> out.score,
                                           penalty |-> compute_penalty(verdict), pc |-> "set"])
        /\ last' = [seq |-> 0, op |-> "treat_spam_read"]
        /\ UNCHANGED <<now, db_groups, db_botconfig, settings, db_messages, db_users,
                       db_spamresults, bot_calls, rehydrate_calls, hist>>

\* new_score is computed from the score read and set_reputation writes it
TreatSpamWrite ==
    \E i \in DOMAIN pending :
        /\ pending[i].pc = "set"
        /\ \E out \in {set_reputation(redis, now, db_users, pending[i].user_id, pending[i].group_id,
                                      NewScore(pending[i].score, pending[i].penalty), TRUE)} :
            /\ redis' = out.store
            /\ db_users' = out.users
        /\ pending' = [pending EXCEPT ![i].pc = "done"]
        /\ last' = [seq |-> 0, op |-> "treat_spam_write"]
        /\ UNCHANGED <<now, db_groups, db_botconfig, settings, db_messages,
                       db_spamresults, bot_calls, rehydrate_calls, hist>>

NextPenalty == TreatSpamRead \/ TreatSpamWrite

SpecPenalty == InitMirror /\ [][NextPenalty]_vars

\* the penalties of the treat_spam calls made so far on (u, g), summed
RECURSIVE PenaltySum(_, _, _)
PenaltySum(tasks, u, g) ==
    IF tasks = << >> THEN 0
    ELSE (IF Head(tasks).user_id = u /\ Head(tasks).group_id = g THEN Head(tasks).penalty ELSE 0)
         + PenaltySum(Tail(tasks), u, g)

\* C31: no penalty is lost under concurrency: for any interleaving of k
\* treat_spam calls with spam verdicts for the same (user, group), starting
\* from score s with penalties p1..pk, the final cached reputation is
\* max(s - (p1 + ... + pk), 0).
C31_NoPenaltyLost ==
    \A u \in ModUsers, g \in Groups :
        (/\ \E i \in DOMAIN pending : pending[i].user_id = u /\ pending[i].group_id = g
         /\ \A i \in DOMAIN pending : pending[i].pc = "done")
            => int_of_str(redis.data[_key_reputation(u, g)])
                   = Max(DEFAULT_START_SCORE - PenaltySum(pending, u, g), 0)

\* ---------------------------------------------------------------------------
\* build_context calls of detached tasks: the guard is evaluated, then the
\* rehydration runs step by step while other calls evaluate theirs
\* ---------------------------------------------------------------------------

MaxBuildCalls == 2

\* build_context up to its guard: the group window and the cooldown flag are
\* read; a call whose guard holds enters rehydrate_group_caches, any other
\* goes on to assemble its bundle
BuildContextGuard ==
    \E g \in Groups :
        /\ Len(pending) < MaxBuildCalls
        /\ LET skip_key == _key_rehydration_cooldown(g)
               skip_flag == IF Exists(redis, skip_key) THEN Some(redis.data[skip_key]) ELSE None
               rehydrate == NeedsRehydrate(skip_flag, get_recent_group_messages(redis, g, GROUP_MSG_LIMIT), now)
           IN  pending' = Append(pending, StepTask("rehydrate_group_caches",
                                                   IF rehydrate THEN "clear" ELSE "returned",
                                                   FALSE, 0, g, 0, "build_context", << >>))
        /\ last' = [seq |-> 0, op |-> "build_context_guard"]
        /\ UNCHANGED <<redis, now, db_messages>>
        /\ StepFrame

\* build_context after its rehydration returned: the group window is read
\* again and, when it is empty, the cooldown flag is set
BuildContextAfterRehydrate ==
    \E i \in DOMAIN pending :
        /\ pending[i].pc = "done"
        /\ pending[i].kind = "build_context"
        /\ redis' = IF get_recent_group_messages(redis, pending[i].group_id, GROUP_MSG_LIMIT) = << >>
                    THEN redis_set(redis, now, _key_rehydration_cooldown(pending[i].group_id),
                                   "skip", EMPTY_DB_COOLDOWN_SECS)
                    ELSE redis
        /\ pending' = [pending EXCEPT ![i].pc = "returned"]
        /\ last' = [seq |-> 0, op |-> "build_context_after_rehydrate"]
        /\ UNCHANGED <<now, db_messages>>
        /\ StepFrame

NextGuard ==
    \/ BuildContextGuard
    \/ RehydrateClear
    \/ RehydrateStateConfig
    \/ RehydrateSelect
    \/ RehydrateReplayRow
    \/ BuildContextAfterRehydrate

SpecGuard == InitReplay /\ [][NextGuard]_vars

\* the rehydrate_group_caches runs of a group that have begun and not returned
RunsInProgress(g) ==
    {i \in DOMAIN pending : /\ pending[i].op = "rehydrate_group_caches"
                            /\ pending[i].group_id = g
                            /\ pending[i].pc \in {"clear", "state_config", "select", "replay"}}

\* C32: for any interleaving of concurrent build_context calls for the same
\* group whose window is empty, thin or stale, at most one
\* rehydrate_group_caches run for that group is in progress at any time.
C32_OneRehydrationAtATime == \A g \in Groups : Cardinality(RunsInProgress(g)) <= 1

\* ---------------------------------------------------------------------------
\* The reputation across treat_spam calls, reads, evicted keys and flushes
\* ---------------------------------------------------------------------------

MaxDecaySteps == 6

\* FLUSHDB
redis_flushdb(st) == EmptyStore

\* the loop of rehydrate_all_caches over the chat ids of the Group rows
RECURSIVE RehydrateEach(_, _, _, _, _, _, _, _)
RehydrateEach(st, t, groups, botconfig, messages, todo, limit, clear) ==
    IF todo = {} THEN st
    ELSE LET chat_id == CHOOSE c \in todo : \A o \in todo : c <= o
         IN  RehydrateEach(rehydrate_group_caches(st, t, groups, botconfig, messages, chat_id,
                                                  limit, clear),
                           t, groups, botconfig, messages, todo \ {chat_id}, limit, clear)

rehydrate_all_caches(st, t, groups, botconfig, messages, limit, clear, flush_all) ==
    RehydrateEach(IF flush_all THEN redis_flushdb(st) ELSE st, t, groups, botconfig, messages,
                  DOMAIN groups, limit, clear)

DecayFrame == UNCHANGED <<now, db_groups, db_botconfig, settings, db_messages, pending, rehydrate_calls>>

\* a spam verdict is treated
TreatSpamVerdict ==
    \E u \in ModUsers, g \in Groups, verdict \in SpamVerdicts :
        /\ last.seq < MaxDecaySteps
        /\ \E out \in {treat_spam(redis, now, db_users, db_spamresults, verdict,
                        ContextBundle(g, None, None, << >>, << >>, << >>, << >>,
                                      NewMessage(last.seq + 1, u, g, None), None), AllOk)} :
            /\ redis' = out.store
            /\ db_users' = out.users
            /\ db_spamresults' = out.results
            /\ bot_calls' = bot_calls \o out.calls
        /\ last' = [seq |-> last.seq + 1, op |-> "treat_spam"]
        /\ UNCHANGED hist
        /\ DecayFrame

\* get_reputation(u, g) is read; history: the value of the read before it
ReadReputation ==
    \E u \in ModUsers, g \in Groups :
        /\ last.seq < MaxDecaySteps
        /\ \E rep \in {get_reputation(redis, now, db_users, u, g, TRUE)} :
            /\ redis' = rep.store
            /\ hist' = Put(hist, <<u, g>>, rep.score)
            /\ last' = [seq |-> last.seq + 1, op |-> "get_reputation", score |-> rep.score,
                        before |-> IF <<u, g>> \in DOMAIN hist THEN Some(hist[<<u, g>>]) ELSE None]
        /\ UNCHANGED <<db_users, db_spamresults, bot_calls>>
        /\ DecayFrame

\* the cache loses a reputation key
LoseReputationKey ==
    \E u \in ModUsers, g \in Groups :
        /\ last.seq < MaxDecaySteps
        /\ Exists(redis, _key_reputation(u, g))
        /\ redis' = redis_delete(redis, _key_reputation(u, g))
        /\ last' = [seq |-> last.seq + 1, op |-> "key_lost"]
        /\ UNCHANGED <<db_users, db_spamresults, bot_calls, hist>>
        /\ DecayFrame

\* rehydrate_all_caches(flush_all=True)
CallRehydrateAllFlush ==
    /\ last.seq < MaxDecaySteps
    /\ redis # EmptyStore
    /\ redis' = rehydrate_all_caches(redis, now, db_groups, db_botconfig, db_messages,
                                     CONTEXT_REPLAY_LIMIT, TRUE, TRUE)
    /\ last' = [seq |-> last.seq + 1, op |-> "rehydrate_all_caches"]
    /\ UNCHANGED <<db_users, db_spamresults, bot_calls, hist>>
    /\ DecayFrame

NextDecay == TreatSpamVerdict \/ ReadReputation \/ LoseReputationKey \/ CallRehydrateAllFlush

SpecDecay == InitRehydrate /\ [][NextDecay]_vars

MaxBans == 3

\* the mildest verdict (penalty 3) and the hardest (penalty 30)
EscalationVerdicts ==
    {[spam |-> TRUE, confidence |-> 50, reason |-> "r", categories |-> <<"promo">>],
     [spam |-> TRUE, confidence |-> 100, reason |-> "r", categories |-> <<"scam">>]}

\* the audit rows of the evaluations of user u in group g that record a ban;
\* history: hist[i] is the (user, group) of the evaluation that wrote row i
BanRows(u, g) ==
    {i \in DOMAIN db_spamresults :
        hist[i] = <<u, g>> /\ db_spamresults[i].treatment_action = "ban"}

EscalateFrame == UNCHANGED <<now, db_groups, db_botconfig, settings, db_messages, pending, rehydrate_calls>>

\* one whole treat_spam call with a spam verdict for user u in group g; the
\* calls do not overlap and the reputation key stays in the cache
TreatSpamVerdictFor(u, g) ==
    \E verdict \in EscalationVerdicts :
        /\ Cardinality(BanRows(u, g)) < MaxBans
        /\ \E out \in {treat_spam(redis, now, db_users, db_spamresults, verdict,
                        ContextBundle(g, None, None, << >>, << >>, << >>, << >>,
                                      NewMessage(Len(db_spamresults) + 1, u, g, None), None),
                        AllOk)} :
            /\ redis' = out.store
            /\ db_users' = out.users
            /\ db_spamresults' = out.results
            /\ bot_calls' = bot_calls \o out.calls
        /\ hist' = Append(hist, <<u, g>>)
        /\ last' = [seq |-> 0, op |-> "treat_spam"]
        /\ EscalateFrame

EscalateTreatSpam == \E u \in ModUsers, g \in WinGroups : TreatSpamVerdictFor(u, g)

NextEscalate == EscalateTreatSpam

SpecEscalate == InitMod /\ [][NextEscalate]_vars

\* the evaluations of every (user, group) keep coming
SpecEscalateFair ==
    SpecEscalate /\ \A u \in ModUsers, g \in WinGroups : WF_vars(TreatSpamVerdictFor(u, g))

BanIssued(u, g) == BanRows(u, g) # {}

StaysBanned(u, g) ==
    \A i, j \in DOMAIN db_spamresults :
        /\ i < j
        /\ hist[i] = <<u, g>>
        /\ hist[j] = <<u, g>>
        /\ db_spamresults[i].treatment_action = "ban"
        => db_spamresults[j].treatment_action = "ban"

\* C34: with evaluations of one (user, group) that do not overlap, ordered
\* thresholds and no cache loss, a user who keeps receiving spam verdicts
\* eventually receives the action ban (every penalty is at least 3), and every
\* spam verdict after the first ban yields ban as well.
C34_EscalationReachesAndStaysAtBan ==
    /\ \A u \in ModUsers, g \in WinGroups : <>BanIssued(u, g)
    /\ [](\A u \in ModUsers, g \in WinGroups : StaysBanned(u, g))
    /\ [](\A i \in DOMAIN db_spamresults : db_spamresults[i].points_docked >= 3)

\* a ban was followed by a further spam verdict for the same user and group,
\* and the ladder was climbed through a milder action before
C34_Witness ==
    \E u \in ModUsers, g \in WinGroups :
        /\ \E i, j \in DOMAIN db_spamresults :
              /\ i < j
              /\ hist[i] = <<u, g>>
              /\ hist[j] = <<u, g>>
              /\ db_spamresults[i].treatment_action = "ban"
        /\ \E i \in DOMAIN db_spamresults :
              hist[i] = <<u, g>> /\ db_spamresults[i].treatment_action = "probation"

\* C35: the rate limiter rejects a call (handler not run, slow-down notice
\* sent) only if the bucket held no token when the call arrived: a rejected
\* call took no token, so from a full bucket of capacity C with no refill in
\* between exactly C consecutive calls run the wrapped handler.
C35_RejectedOnlyWhenBucketEmpty ==
    last.op = "rate_limit" /\ ~last.handled => ~last.consumed

\* the rows the durable store holds for group g
DurableCount(g) == Cardinality({i \in DOMAIN db_messages : db_messages[i].group_id = g})

\* C36: the cooldown flag is set only when the group window is empty after a
\* rehydration, so for a group whose durable store holds between 1 and
\* MIN_CONTEXT_MSGS - 1 messages no step of a build_context call ever sets
\* the cooldown flag (the window stays thin and every call rehydrates again).
C36_ThinGroupNeverCooledDown ==
    [][\A g \in Groups :
          /\ DurableCount(g) \in 1..(MIN_CONTEXT_MSGS - 1)
          /\ ~Exists(redis, _key_rehydration_cooldown(g))
          => ~Exists(redis', _key_rehydration_cooldown(g))]_vars

\* the ids appended to the key since it was created
AppendedIds(key) == {HistOf(key)[e].item.id : e \in 1..Len(HistOf(key))}

\* C37: duplicate appends never displace distinct items from a read: after any
\* sequence of appends to a window key (each with limit L) in which d distinct
\* ids were appended, get_recent_* with limit L returns min(L, d) items.
C37_ReadReturnsMinOfLimitAndDistinct ==
    \A key \in WindowKeys : \A L \in Limits :
        /\ Exists(redis, key)
        /\ \A e \in 1..Len(HistOf(key)) : HistOf(key)[e].limit = L
        => Len(GetRecent(redis, key, L)) = Min(L, Cardinality(AppendedIds(key)))

\* the step in which task i runs build_context
BuildContextOf(i) ==
    /\ i \in DOMAIN pending
    /\ Len(pending') = Len(pending)
    /\ pending[i].ctx = None
    /\ pending'[i].ctx # None

\* C38: when build_context triggers a rehydration that yields messages, the
\* bundle's recent_group_messages is the window read after the rehydration,
\* while recent_user_messages, recent_user_enriched, user_global_meta and the
\* frequency scores computed from them are the values read before it.
C38_BundleMixesReadsAroundRehydration ==
    [][\A i \in DOMAIN pending :
          /\ BuildContextOf(i)
          /\ last'.rehydrated
          /\ Val(pending'[i].ctx).recent_group_messages # << >>
          => LET bundle == Val(pending'[i].ctx)
                 u == pending[i].user_id
                 g == pending[i].group_id
             IN  /\ bundle.recent_group_messages
                      = get_recent_group_messages(redis', g, GROUP_MSG_LIMIT)
                 /\ bundle.recent_user_messages
                      = get_recent_user_group_messages(redis, u, g, USER_CACHE_LIMIT)
                 /\ bundle.recent_user_enriched
                      = get_recent_user_group_enriched(redis, u, g, USER_ENRICH_LIMIT)
                 /\ bundle.user_global_meta
                      = get_recent_user_global_meta(redis, u, USER_CACHE_LIMIT)
                 /\ bundle.user_frequency
                      = Some([within_group |->
                                  compute_frequency_score(
                                      get_recent_user_group_messages(redis, u, g,
                                                                     USER_CACHE_LIMIT)),
                              across_groups |->
                                  compute_frequency_score(
                                      get_recent_user_global_meta(redis, u,
                                                                  USER_CACHE_LIMIT))])]_vars

\* a build_context call rehydrated, the replay filled the group window and the
\* user's window in the group, and the bundle holds the user window as it was
\* before the rehydration, which is not what the cache holds after it
C38_Witness ==
    /\ last.op = "build_context"
    /\ last.rehydrated
    /\ last.bundle.recent_group_messages # << >>
    /\ last.bundle.recent_group_messages
         = get_recent_group_messages(redis, last.group_id, GROUP_MSG_LIMIT)
    /\ get_recent_user_group_messages(redis, last.user_id, last.group_id, USER_CACHE_LIMIT)
         # << >>
    /\ last.bundle.recent_user_messages
         # get_recent_user_group_messages(redis, last.user_id, last.group_id, USER_CACHE_LIMIT)

\* the keys of the group, user-in-group and user-global windows
MessageWindowKeys ==
    {_key_group_msgs(g) : g \in Groups} \cup {_key_user_global(u) : u \in Users}
    \cup {_key_user_group(u, g) : u \in Users, g \in Groups}

\* C39: the cache never holds a message the durable store lacks: in every
\* reachable state every entry of a group, user-in-group or user-global window
\* carries the id of a committed row of the durable store and is the payload of
\* that row (log_message commits before its cache appends; the replay appends
\* only rows read from the durable store).
C39_CachedMessagesAreDurable ==
    \A key \in MessageWindowKeys :
        \A i \in DOMAIN Stored(redis, key) :
            /\ Stored(redis, key)[i].id \in DOMAIN db_messages
            /\ Stored(redis, key)[i] = MessagePayload(db_messages[Stored(redis, key)[i].id])

\* a log_message call has committed its row and not yet appended it to the
\* group window, while the window holds an earlier message that a replay
\* appended after the live path had
C39_Witness ==
    /\ \E i \in DOMAIN pending :
          /\ pending[i].op = "handle_message"
          /\ pending[i].pc \in LogWrites
          /\ \A j \in DOMAIN Stored(redis, _key_group_msgs(pending[i].group_id)) :
                Stored(redis, _key_group_msgs(pending[i].group_id))[j].id # pending[i].msg
    /\ \E i \in DOMAIN pending :
          /\ pending[i].op = "rehydrate_group_caches"
          /\ pending[i].pc = "done"
          /\ Len(Stored(redis, _key_group_msgs(pending[i].group_id))) >= 2

\* ---------------------------------------------------------------------------
\* Specification SpecFailOpen: the pipeline with the language model's answer
\* ---------------------------------------------------------------------------

\* what the language model does with a classification call: the client cannot
\* be built, the request fails inside the client, or a verdict is answered
LlmReplies ==
    {[kind |-> "no_client"], [kind |-> "api_error"]}
      \cup {[kind |-> "answer", data |-> v] : v \in PipelineVerdicts}

\* LLMClient.classify: _get_client() is called outside the try, a failure of
\* the request is caught and answered with a neutral result without categories
classify(reply) ==
    IF reply.kind = "no_client" THEN [raised |-> TRUE]
    ELSE IF reply.kind = "api_error"
    THEN [raised |-> FALSE,
          result |-> [spam |-> FALSE, confidence |-> 50, reason |-> "LLM error"]]
    ELSE [raised |-> FALSE, result |-> reply.data]

\* mutation of analyze: a call that raises is answered with a spam verdict
analyze_fail_closed(reply) ==
    LET out == classify(reply)
        llm_result == IF out.raised
                      THEN [spam |-> TRUE, confidence |-> 50, reason |-> "LLM unavailable",
                            categories |-> << >>]
                      ELSE out.result
    IN  [spam |-> llm_result.spam, confidence |-> llm_result.confidence,
         reason |-> llm_result.reason,
         categories |-> IF "categories" \in DOMAIN llm_result THEN llm_result.categories
                        ELSE << >>]

\* SpamDetector.analyze: the verdict built from the classification, or from
\* the fallback result when the call raises
analyze(reply) ==
    LET out == classify(reply)
        llm_result == IF out.raised
                      THEN [spam |-> FALSE, confidence |-> 50, reason |-> "LLM unavailable",
                            categories |-> << >>]
                      ELSE out.result
    IN  [spam |-> llm_result.spam, confidence |-> llm_result.confidence,
         reason |-> llm_result.reason,
         categories |-> IF "categories" \in DOMAIN llm_result THEN llm_result.categories
                        ELSE << >>]

\* detect_and_treat_spam with the bundle of a task: analyze, then treat_spam
DetectAndTreatSpam ==
    \E i \in 1..Len(pending), reply \in LlmReplies :
        /\ pending[i].ctx # None
        /\ \E verdict \in {analyze(reply)} :
           \E out \in {treat_spam(redis, now, db_users, db_spamresults, verdict,
                                  Val(pending[i].ctx), AllOk)} :
            /\ redis' = out.store
            /\ db_users' = out.users
            /\ db_spamresults' = out.results
            /\ bot_calls' = bot_calls \o out.calls
            /\ pending' = SubSeq(pending, 1, i - 1) \o SubSeq(pending, i + 1, Len(pending))
            /\ last' = [seq |-> last.seq, op |-> "detect_and_treat_spam",
                        user_id |-> pending[i].user_id, group_id |-> pending[i].group_id,
                        reply |-> reply, verdict |-> verdict, score |-> out.score,
                        bundle |-> Val(pending[i].ctx)]
        /\ UNCHANGED <<now, db_groups, db_botconfig, settings, db_messages, rehydrate_calls, hist>>

NextFailOpen == OnTextMessage \/ BuildContext \/ DetectAndTreatSpam \/ Tick

SpecFailOpen == Init /\ [][NextFailOpen]_vars

\* the step is a detect_and_treat_spam run whose classification call raised
RaisedRun == Len(pending') < Len(pending) /\ classify(last'.reply).raised

\* C40: moderation fails open when the language model is unavailable: if the
\* classification call raises, analyze returns a non-spam verdict, so
\* detect_and_treat_spam applies no penalty (the cached score is the score
\* read, the durable score is as before), sends no notification, deletes no
\* message and records an audit row with action none.
C40_FailsOpenWhenModelUnavailable ==
    [][RaisedRun =>
         /\ ~last'.verdict.spam
         /\ int_of_str(redis'.data[_key_reputation(last'.user_id, last'.group_id)])
              = last'.score
         /\ last'.score = get_reputation(redis, now, db_users, last'.user_id, last'.group_id,
                                         TRUE).score
         /\ db_users' = db_users
         /\ bot_calls' = bot_calls
         /\ Len(db_spamresults') = Len(db_spamresults) + 1
         /\ db_spamresults'[Len(db_spamresults')].treatment_action = "none"
         /\ db_spamresults'[Len(db_spamresults')].message_id = last'.bundle.new_message.id
         /\ ~db_spamresults'[Len(db_spamresults')].spam
         /\ ~db_spamresults'[Len(db_spamresults')].deleted
         /\ db_spamresults'[Len(db_spamresults')].points_docked = 0]_vars

\* the classification call raised for a message of a user who was penalised
\* for an earlier one: the score stays where the penalty left it
C40_Witness ==
    /\ last.op = "detect_and_treat_spam"
    /\ classify(last.reply).raised
    /\ last.score < DEFAULT_START_SCORE
    /\ Len(db_spamresults) = 2
    /\ db_spamresults[1].treatment_action # "none"
    /\ db_spamresults[2].treatment_action = "none"
    /\ int_of_str(redis.data[_key_reputation(last.user_id, last.group_id)]) = last.score

=============================================================================
